---- MODULE Spec2Model ----
(***************************************************************************)
(* A model of the coordinate conversion core (src/coordsys.js): WGS84 and  *)
(* PSD93 geodetic coordinates, the 7-parameter Helmert transformation and  *)
(* the PSD93 UTM projection.                                               *)
(*                                                                         *)
(* A JavaScript number is modelled as a decimal fixed-point number with 12 *)
(* fractional digits: a tuple of 7 limbs in base 10^4, least significant   *)
(* first, limbs 1..3 the fraction and limbs 4..7 the integer part.  Limbs  *)
(* 1..6 are in 0..9999 and limb 7 carries the sign (radix complement), so  *)
(* every operation rounds towards minus infinity by at most 10^-12.  The   *)
(* empty tuple stands for a non-finite number (NaN or an infinity).        *)
(***************************************************************************)
EXTENDS Integers, Sequences, FiniteSets, TLC

(***************************************************************************)
(* Number representation and arithmetic (the JavaScript operators + - * /  *)
(* and the Math functions of src/coordsys.js).                             *)
(***************************************************************************)
Base == 10^4

NaN == << >>

IsNaN(x) == Len(x) = 0

\* The number i.f1f2f3, each f a group of four decimal digits, i >= 0.
Dec(i, f1, f2, f3) ==
  << f3, f2, f1, i % Base, (i \div Base) % Base, ((i \div Base) \div Base) % Base,
     ((i \div Base) \div Base) \div Base >>

Zero == Dec(0, 0, 0, 0)

One == Dec(1, 0, 0, 0)

\* Carry propagation: raw limbs of any sign to the normal form.
Carry(r) ==
  LET s1 == r[1]
      s2 == r[2] + (s1 \div Base)
      s3 == r[3] + (s2 \div Base)
      s4 == r[4] + (s3 \div Base)
      s5 == r[5] + (s4 \div Base)
      s6 == r[6] + (s5 \div Base)
      s7 == r[7] + (s6 \div Base)
  IN << s1 % Base, s2 % Base, s3 % Base, s4 % Base, s5 % Base, s6 % Base, s7 >>

\* An integer n (of either sign) as a number.
FromInt(n) == Carry(<< 0, 0, 0, n, 0, 0, 0 >>)

IsNeg(a) == a[7] < 0

IsZero(a) == a = Zero

NegRaw(a) == Carry(<< -a[1], -a[2], -a[3], -a[4], -a[5], -a[6], -a[7] >>)

AddRaw(a, b) ==
  Carry(<< a[1] + b[1], a[2] + b[2], a[3] + b[3], a[4] + b[4],
           a[5] + b[5], a[6] + b[6], a[7] + b[7] >>)

SubRaw(a, b) ==
  Carry(<< a[1] - b[1], a[2] - b[2], a[3] - b[3], a[4] - b[4],
           a[5] - b[5], a[6] - b[6], a[7] - b[7] >>)

\* a * n for a small integer n.
ScaleRaw(a, n) ==
  Carry(<< a[1] * n, a[2] * n, a[3] * n, a[4] * n, a[5] * n, a[6] * n, a[7] * n >>)

\* floor(a / n) for a small integer n > 0.
QuotRaw(a, n) ==
  LET q7 == a[7] \div n
      t6 == (a[7] % n) * Base + a[6]
      t5 == (t6 % n) * Base + a[5]
      t4 == (t5 % n) * Base + a[4]
      t3 == (t4 % n) * Base + a[3]
      t2 == (t3 % n) * Base + a[2]
      t1 == (t2 % n) * Base + a[1]
  IN << t1 \div n, t2 \div n, t3 \div n, t4 \div n, t5 \div n, t6 \div n, q7 >>

\* The limb products of a * b by weight; the weights above the top limb are
\* folded into the last sum.
MulRows(a, b) ==
  << a[1]*b[1],
     a[1]*b[2] + a[2]*b[1],
     a[1]*b[3] + a[2]*b[2] + a[3]*b[1],
     a[1]*b[4] + a[2]*b[3] + a[3]*b[2] + a[4]*b[1],
     a[1]*b[5] + a[2]*b[4] + a[3]*b[3] + a[4]*b[2] + a[5]*b[1],
     a[1]*b[6] + a[2]*b[5] + a[3]*b[4] + a[4]*b[3] + a[5]*b[2] + a[6]*b[1],
     a[1]*b[7] + a[2]*b[6] + a[3]*b[5] + a[4]*b[4] + a[5]*b[3] + a[6]*b[2] + a[7]*b[1],
     a[2]*b[7] + a[3]*b[6] + a[4]*b[5] + a[5]*b[4] + a[6]*b[3] + a[7]*b[2],
     a[3]*b[7] + a[4]*b[6] + a[5]*b[5] + a[6]*b[4] + a[7]*b[3],
     a[4]*b[7] + a[5]*b[6] + a[6]*b[5] + a[7]*b[4]
       + Base * (a[5]*b[7] + a[6]*b[6] + a[7]*b[5]
                 + Base * (a[6]*b[7] + a[7]*b[6] + Base * (a[7]*b[7]))) >>

\* The sums r carried, with the 12 lowest digits dropped.
DropLow(r) ==
  LET s2 == r[2] + (r[1] \div Base)
      s3 == r[3] + (s2 \div Base)
      s4 == r[4] + (s3 \div Base)
      s5 == r[5] + (s4 \div Base)
      s6 == r[6] + (s5 \div Base)
      s7 == r[7] + (s6 \div Base)
      s8 == r[8] + (s7 \div Base)
      s9 == r[9] + (s8 \div Base)
      s10 == r[10] + (s9 \div Base)
  IN << s4 % Base, s5 % Base, s6 % Base, s7 % Base, s8 % Base, s9 % Base, s10 >>

\* floor(a * b).
MulRaw(a, b) == DropLow(MulRows(a, b))

\* a / Base^k for k <= 2.
ShiftR(a) == << a[2], a[3], a[4], a[5], a[6], a[7] % Base, a[7] \div Base >>

ShiftDown(a, k) == IF k <= 0 THEN a ELSE IF k = 1 THEN ShiftR(a) ELSE ShiftR(ShiftR(a))

\* The index of the highest non-zero limb of a > 0 (1 when a is below Base).
TopLimb(a) ==
  IF a[7] # 0 THEN 7 ELSE IF a[6] # 0 THEN 6 ELSE IF a[5] # 0 THEN 5
  ELSE IF a[4] # 0 THEN 4 ELSE IF a[3] # 0 THEN 3 ELSE IF a[2] # 0 THEN 2 ELSE 1

\* Limb i of the number with the limbs l0, l1, l2 at the positions pos..pos+2.
LimbAt(l0, l1, l2, pos, i) ==
  IF i = pos THEN l0 ELSE IF i = pos + 1 THEN l1 ELSE IF i = pos + 2 THEN l2 ELSE 0

PlaceLimbs(l0, l1, l2, pos) ==
  << LimbAt(l0, l1, l2, pos, 1), LimbAt(l0, l1, l2, pos, 2), LimbAt(l0, l1, l2, pos, 3),
     LimbAt(l0, l1, l2, pos, 4), LimbAt(l0, l1, l2, pos, 5), LimbAt(l0, l1, l2, pos, 6),
     LimbAt(l0, l1, l2, pos, 7) >>

\* The integer v (0 <= v < 2^31) with its lowest limb at position pos (1..5).
PlaceInt(v, pos) == PlaceLimbs(v % Base, (v \div Base) % Base, v \div (Base * Base), pos)

\* The last of a tuple of values.  The tuple is built left to right, so each
\* step of a computation is finished before the next one starts.
Last(steps) == steps[Len(steps)]

\* floor(sqrt(x)) of an integer 0 < x < 10^8, by Heron steps from above.
RECURSIVE ISqrtIter(_, _, _)
ISqrtIter(x, g, n) ==
  IF n = 0 \/ g = 0 THEN g ELSE ISqrtIter(x, (g + (x \div g)) \div 2, n - 1)

ISqrt(x) == ISqrtIter(x, Base, 20)

\* The two leading limbs of a > 0 as one integer; t is the top limb of a.
LeadAt(a, t) == IF t = 1 THEN a[1] ELSE a[t] * Base + a[t - 1]

Lead(a) == LeadAt(a, TopLimb(a))

\* A first approximation of 1 / b, b > 0, from its top limb t and leading
\* limbs x.
RecipGuess(t, x) ==
  IF t = 1 THEN ScaleRaw(PlaceInt(10^9 \div x, 4), 1000)
  ELSE IF t = 7 THEN Zero
  ELSE IF t = 6 THEN PlaceInt(10^8 \div x, 1)
  ELSE IF x < 10^6 THEN PlaceInt((10^9 \div x) * 1000, 6 - t)
  ELSE PlaceInt((10^9 \div (x \div 100)) * 10, 6 - t)

Recip0(b) == RecipGuess(TopLimb(b), Lead(b))

\* One Newton step for the reciprocal: r + r * (1 - b * r).
RecipStep(b, r) == AddRaw(r, MulRaw(r, SubRaw(One, MulRaw(b, r))))

\* n Newton steps from r.
RECURSIVE RecipIter(_, _, _)
RecipIter(b, r, n) ==
  IF n = 0 THEN r ELSE Last(<< r, RecipIter(b, RecipStep(b, r), n - 1) >>)

\* 1 / b for b > 0.
Recip(b) == RecipIter(b, Recip0(b), 3)

\* One correction of the quotient q of a / b: q + r * (a - b * q).
QuotStep(a, b, r, q) == AddRaw(q, MulRaw(r, SubRaw(a, MulRaw(b, q))))

RECURSIVE QuotIter(_, _, _, _, _)
QuotIter(a, b, r, q, n) ==
  IF n = 0 THEN q ELSE Last(<< q, QuotIter(a, b, r, QuotStep(a, b, r, q), n - 1) >>)

\* a / b for b > 0 below Base^5, with r about 1 / b.
Quot(a, b, r) == QuotIter(a, b, r, MulRaw(a, r), 2)

DivPos(a, b) == Quot(a, b, Recip(b))

\* a / b for b > 0: both are scaled down while b is not below Base^5.
DivScaled(a, b, k) == DivPos(ShiftDown(a, k), ShiftDown(b, k))

\* The JavaScript operators.  A division by zero gives a non-finite number.
Neg(a) == IF IsNaN(a) THEN NaN ELSE NegRaw(a)

Add(a, b) == IF IsNaN(a) \/ IsNaN(b) THEN NaN ELSE AddRaw(a, b)

Sub(a, b) == IF IsNaN(a) \/ IsNaN(b) THEN NaN ELSE SubRaw(a, b)

Mul(a, b) == IF IsNaN(a) \/ IsNaN(b) THEN NaN ELSE MulRaw(a, b)

\* n * a and a / n for an integer literal n > 0 of the source.
MulInt(n, a) == IF IsNaN(a) THEN NaN ELSE ScaleRaw(a, n)

DivInt(a, n) == IF IsNaN(a) THEN NaN ELSE QuotRaw(a, n)

Abs(a) == IF IsNaN(a) THEN NaN ELSE IF IsNeg(a) THEN NegRaw(a) ELSE a

Div(a, b) ==
  IF IsNaN(a) \/ IsNaN(b) THEN NaN
  ELSE IF IsZero(b) THEN NaN
  ELSE DivScaled(IF IsNeg(b) THEN NegRaw(a) ELSE a, Abs(b), TopLimb(Abs(b)) - 5)

\* a <= b and a < b on finite numbers.
LessEq(a, b) == ~IsNeg(SubRaw(b, a))

Less(a, b) == IsNeg(SubRaw(a, b))

\* Math.PI, and PI / 2 and 2 / PI to the same 12 digits.
Pi == Dec(3, 1415, 9265, 3589)

HalfPi == Dec(1, 5707, 9632, 6794)

TwoOverPi == Dec(0, 6366, 1977, 2367)

\* One step of the square root of w with r about 1 / s: s + r * (w - s * s) / 2.
SqrtStep(w, s, r) == AddRaw(s, QuotRaw(MulRaw(r, SubRaw(w, MulRaw(s, s))), 2))

\* A first approximation of sqrt(w), w > 0: g is the root of the leading limbs
\* of w and e the number of limbs they stand above.
SqrtPlace(e, g) == PlaceInt(IF e % 2 = 1 THEN g * 100 ELSE g, (e \div 2) + 1)

SqrtGuess(t, g) == SqrtPlace(IF t = 1 THEN 3 ELSE t + 1, g)

Sqrt0(w) == SqrtGuess(TopLimb(w), ISqrt(Lead(w)))

\* n steps from s, with r about 1 / s kept up by one Newton step each.
RECURSIVE SqrtIter(_, _, _, _)
RECURSIVE SqrtNext(_, _, _, _)
SqrtIter(w, s, r, n) ==
  IF n = 0 THEN s ELSE Last(<< s, r, SqrtNext(w, SqrtStep(w, s, r), r, n - 1) >>)

SqrtNext(w, s, r, n) ==
  IF n = 0 THEN s ELSE Last(<< s, SqrtIter(w, s, RecipStep(s, r), n) >>)

SqrtFrom(w, s) == SqrtIter(w, s, Recip(s), 4)

\* Math.sqrt: non-finite for a negative argument.
Sqrt(w) ==
  IF IsNaN(w) THEN NaN
  ELSE IF IsNeg(w) THEN NaN
  ELSE IF IsZero(w) THEN Zero
  ELSE SqrtFrom(w, Sqrt0(w))

\* The integer part (floor) of a, as a number.
Floor(a) == << 0, 0, 0, a[4], a[5], a[6], a[7] >>

\* One Horner step of a Taylor polynomial: 1 - r2 * acc / n.
Horner(r2, acc, n) == SubRaw(One, QuotRaw(MulRaw(r2, acc), n))

\* k Horner steps in r2 = r * r: the sum for sin r / r when odd is 1 (the
\* divisors are 2k(2k+1)), for cos r when odd is 0 (they are (2k-1)2k).
RECURSIVE Taylor(_, _, _, _)
Taylor(r2, acc, k, odd) ==
  IF k = 0 THEN acc
  ELSE Last(<< acc,
               Taylor(r2, Horner(r2, acc, (2 * k - 1 + odd) * (2 * k + odd)), k - 1, odd) >>)

\* sin r and cos r on [-PI/4, PI/4]: the Taylor polynomials to r^17 and r^16.
SinT(r) == MulRaw(r, Taylor(MulRaw(r, r), One, 8, 1))

CosT(r) == Taylor(MulRaw(r, r), One, 8, 0)

\* The number of quarter turns nearest to x.
Quadrant(x) == Floor(AddRaw(MulRaw(x, TwoOverPi), Dec(0, 5000, 0, 0)))

\* sin(r + m * PI / 2) for r on [-PI/4, PI/4] and m in 0..3.
SinTurned(r, m) ==
  IF m = 0 THEN SinT(r) ELSE IF m = 1 THEN CosT(r)
  ELSE IF m = 2 THEN NegRaw(SinT(r)) ELSE NegRaw(CosT(r))

\* sin(x + shift * PI / 2), x being n quarter turns and a rest (Base is a
\* multiple of 4).
SinFrom(x, n, shift) == SinTurned(SubRaw(x, MulRaw(n, HalfPi)), (n[4] + shift) % 4)

\* Math.sin and Math.cos.
Sin(x) == IF IsNaN(x) THEN NaN ELSE SinFrom(x, Quadrant(x), 0)

Cos(x) == IF IsNaN(x) THEN NaN ELSE SinFrom(x, Quadrant(x), 1)

\* A first approximation of atan(t) for 0 <= t <= 1.
AtanPoly(t) ==
  MulRaw(t, AddRaw(QuotRaw(Pi, 4), MulRaw(Dec(0, 2730, 0, 0), SubRaw(One, t))))

\* A first approximation of the angle of (ax, ay) in the first quadrant.
Atan0(ay, ax) ==
  IF LessEq(ay, ax) THEN AtanPoly(Div(ay, ax))
  ELSE SubRaw(HalfPi, AtanPoly(Div(ax, ay)))

\* The angle p of (|x|, |y|) moved to the quadrant of (x, y).
AtanSigned(y, x, p) ==
  IF IsNeg(x) THEN (IF IsNeg(y) THEN NegRaw(SubRaw(Pi, p)) ELSE SubRaw(Pi, p))
  ELSE IF IsNeg(y) THEN NegRaw(p) ELSE p

\* One step towards the angle of (x, y), c and s being cos phi and sin phi:
\* phi + (y cos phi - x sin phi) / (x cos phi + y sin phi).
AtanCorrect(y, x, phi, c, s) ==
  Last(<< c, s,
          Add(phi, Div(SubRaw(MulRaw(y, c), MulRaw(x, s)),
                       AddRaw(MulRaw(x, c), MulRaw(y, s)))) >>)

RECURSIVE AtanIter(_, _, _, _)
AtanIter(y, x, phi, n) ==
  IF n = 0 THEN phi
  ELSE Last(<< phi, AtanIter(y, x, AtanCorrect(y, x, phi, Cos(phi), Sin(phi)), n - 1) >>)

\* Math.atan2; atan2(0, 0) is 0.
Atan2(y, x) ==
  IF IsNaN(y) \/ IsNaN(x) THEN NaN
  ELSE IF IsZero(y) /\ IsZero(x) THEN Zero
  ELSE AtanIter(y, x, AtanSigned(y, x, Atan0(Abs(y), Abs(x))), 2)

(***************************************************************************)
(* The program state.                                                      *)
(***************************************************************************)
VARIABLES
  helmertParams,  \* the module-level parameter object (src/coordsys.js:7-15)
  call,           \* the conversion called last: its name and arguments
  ret,            \* what that call returned
  outcome,        \* how that call ended: "returned" or "threw"
  globalsRead,    \* the module-level objects that call read
  prev,           \* the calls of this run before that one, with their results
  session,        \* the point and zone this run converts
  groups,         \* script.js groups: the groups in key order, each with its points
  currentGroup,   \* script.js currentGroup: a group id or null
  markers,        \* script.js markers: the point ids that have an entry
  mapMarkers,     \* the marker layers on the Leaflet map, counted per point id
  polylines,      \* script.js polylines: vertices of the line drawn per group id
  distanceLabels, \* script.js distanceLabels: labels drawn per group id
  fields,         \* the form inputs "easting" and "northing"
  groupsList,     \* the group ids whose buttons the element "groupsList" shows
  now,            \* the last reading of Date.now()
  file,           \* the file exportData downloaded last
  listeners,      \* the "change" listeners on the element "fileInput"
  reading,        \* the contents FileReader is still reading
  handled,        \* the events handled so far
  conv,           \* the conversion results the handlers obtain from coordSys
  stack,          \* the functions of coordsys.js being executed, innermost last
  trace           \* the lines executed since the call under way began

convVars == << helmertParams, ret, globalsRead, prev, session >>
appVars ==
  << groups, currentGroup, markers, mapMarkers, polylines, distanceLabels,
     fields, groupsList, now, file, listeners, reading, handled, conv >>
runVars == << stack, trace >>
vars == << convVars, call, outcome, appVars, runVars >>

\* No function of coordsys.js is being executed.
NotRunning == stack = << >> /\ trace = << >>

(***************************************************************************)
(* src/coordsys.js                                                         *)
(***************************************************************************)
\* helmertParams as the script sets it: metres, arc-seconds, ppm.
HelmertInit ==
  [ dx |-> NegRaw(Dec(180, 6240, 0, 0)),
    dy |-> NegRaw(Dec(225, 5160, 0, 0)),
    dz |-> Dec(173, 9190, 0, 0),
    rx |-> NegRaw(Dec(0, 8100, 0, 0)),
    ry |-> NegRaw(Dec(1, 8980, 0, 0)),
    rz |-> Dec(8, 3360, 0, 0),
    scale |-> Dec(16, 7100, 6000, 0) ]

\* A deg2rad that takes a missing (non-finite) angle for 0.
deg2radChecked(deg) == IF IsNaN(deg) THEN Zero ELSE DivInt(Mul(deg, Pi), 180)

deg2rad(deg) == DivInt(Mul(deg, Pi), 180)

\* A rad2deg whose result drifts with the number of calls made before.
rad2degDrift(rad) == Add(Div(MulInt(180, rad), Pi), FromInt(Len(prev)))

rad2deg(rad) == Div(MulInt(180, rad), Pi)

\* An arcsec2rad that forgets the 3600 arc-seconds of a degree.
arcsec2radAsDegrees(sec) == Mul(sec, DivInt(Pi, 180))

arcsec2rad(sec) == DivInt(Mul(sec, DivInt(Pi, 180)), 3600)

\* Math.pow(x, n) for the integer exponents the source uses.
RECURSIVE Pow(_, _)
Pow(x, n) == IF n = 1 THEN x ELSE Mul(Pow(x, n - 1), x)

\* Math.pow(x, 1.5)
Pow15(x) == Mul(x, Sqrt(x))

\* The ellipsoids: semi-major axis and flattening.
a_wgs == Dec(6378137, 0, 0, 0)

f_wgs == Div(One, Dec(298, 2572, 2356, 3000))

a_psd == Dec(6378249, 1450, 0, 0)

f_psd == Div(One, Dec(293, 4650, 0, 0))

k0 == Dec(0, 9996, 0, 0)

\* A projection without the false easting.
NoFalseEasting == Zero

\* The 500000 of psd93ToUTM and utmToPSD93.
FalseEasting == FromInt(500000)

\* const e2 = 2 * f - f * f
eccSq(f) == Sub(MulInt(2, f), Mul(f, f))

\* a / Math.sqrt(1 - e2 * Math.sin(lat) * Math.sin(lat)), from sin(lat).
primeVertical(a, e2, sinLat) == Div(a, Sqrt(Sub(One, Mul(Mul(e2, sinLat), sinLat))))

\* [X, Y, Z] of geodeticToECEF from N, the sine and cosine of the latitude
\* and the longitude in radians.
ecefXYZ(N, h, e2, sinLat, cosLat, lon) ==
  Last(<< N,
          << Mul(Mul(Add(N, h), cosLat), Cos(lon)),
             Mul(Mul(Add(N, h), cosLat), Sin(lon)),
             Mul(Add(Mul(N, Sub(One, e2)), h), sinLat) >> >>)

ecefOfSines(h, a, e2, sinLat, cosLat, lon) ==
  Last(<< sinLat, cosLat,
          ecefXYZ(primeVertical(a, e2, sinLat), h, e2, sinLat, cosLat, lon) >>)

ecefOfRadians(lat, lon, h, a, e2) ==
  Last(<< lat, lon, e2, ecefOfSines(h, a, e2, Sin(lat), Cos(lat), lon) >>)

geodeticToECEF(lat, lon, h, a, f) ==
  ecefOfRadians(deg2rad(lat), deg2rad(lon), h, a, eccSq(f))

\* [lat, rad2deg(lon), h] of ecefToGeodetic from the latitude in radians.
ecefResult(X, Y, a, e2, p, lat) ==
  Last(<< lat,
          << rad2deg(lat), rad2deg(Atan2(Y, X)),
             Sub(Div(p, Cos(lat)), primeVertical(a, e2, Sin(lat))) >> >>)

\* let lat of ecefToGeodetic: one pass of Bowring's formula from theta.
ecefLat(X, Y, Z, a, f, e2, ep2, p, theta) ==
  Last(<< ep2, theta,
          ecefResult(X, Y, a, e2, p,
            Atan2(Add(Z, Mul(Mul(Mul(ep2, Sub(One, f)), a), Pow(Sin(theta), 3))),
                  Sub(p, Mul(Mul(e2, a), Pow(Cos(theta), 3))))) >>)

ecefTheta(X, Y, Z, a, f, e2, p) ==
  Last(<< e2, p,
          ecefLat(X, Y, Z, a, f, e2, Div(e2, Sub(One, e2)), p,
                  Atan2(Mul(Z, a), Mul(Mul(p, Sub(One, f)), a))) >>)

ecefToGeodetic(X, Y, Z, a, f) ==
  ecefTheta(X, Y, Z, a, f, eccSq(f), Sqrt(Add(Mul(X, X), Mul(Y, Y))))

\* 1e-6
Ppm == Dec(0, 0, 100, 0)

\* The linear form of the Coordinate Frame convention: the three rotations
\* enter with the opposite sign.
frameForm(X, Y, Z, s, rx, ry, rz, tX, tY, tZ) ==
  Last(<< s, rx, ry, rz,
          << Sub(Add(Add(Add(X, tX), Mul(s, X)), Mul(rz, Y)), Mul(ry, Z)),
             Add(Add(Sub(Add(Y, tY), Mul(rz, X)), Mul(s, Y)), Mul(rx, Z)),
             Add(Sub(Add(Add(Z, tZ), Mul(ry, X)), Mul(rx, Y)), Mul(s, Z)) >> >>)

\* const Xt, Yt, Zt of wgs84ToPSD93.
forwardForm(Xs, Ys, Zs, s, rx, ry, rz, tX, tY, tZ) ==
  Last(<< s, rx, ry, rz,
          << Add(Sub(Add(Add(Xs, tX), Mul(s, Xs)), Mul(rz, Ys)), Mul(ry, Zs)),
             Sub(Add(Add(Add(Ys, tY), Mul(rz, Xs)), Mul(s, Ys)), Mul(rx, Zs)),
             Add(Add(Sub(Add(Zs, tZ), Mul(ry, Xs)), Mul(rx, Ys)), Mul(s, Zs)) >> >>)

\* The 7-parameter step of wgs84ToPSD93 on the Cartesian point P.
HelmertForward(P) ==
  Last(<< P,
          forwardForm(P[1], P[2], P[3],
                      Mul(helmertParams.scale, Ppm),
                      arcsec2rad(helmertParams.rx),
                      arcsec2rad(helmertParams.ry),
                      arcsec2rad(helmertParams.rz),
                      helmertParams.dx, helmertParams.dy, helmertParams.dz) >>)

\* const Xs, Ys, Zs of psd93ToWGS84.
inverseForm(Xt, Yt, Zt, s, rx, ry, rz, tX, tY, tZ) ==
  Last(<< s, rx, ry, rz,
          << Add(Sub(Add(Add(Xt, tX), Mul(s, Xt)), Mul(rz, Yt)), Mul(ry, Zt)),
             Sub(Add(Add(Add(Yt, tY), Mul(rz, Xt)), Mul(s, Yt)), Mul(rx, Zt)),
             Add(Add(Sub(Add(Zt, tZ), Mul(ry, Xt)), Mul(rx, Yt)), Mul(s, Zt)) >> >>)

\* A transform back with the signs of the forward parameters.
HelmertSameSigns(P) ==
  Last(<< P,
          inverseForm(P[1], P[2], P[3],
                      Mul(helmertParams.scale, Ppm),
                      arcsec2rad(helmertParams.rx),
                      arcsec2rad(helmertParams.ry),
                      arcsec2rad(helmertParams.rz),
                      helmertParams.dx, helmertParams.dy, helmertParams.dz) >>)

\* The inverse 7-parameter step of psd93ToWGS84 on the Cartesian point P.
HelmertInverse(P) ==
  Last(<< P,
          inverseForm(P[1], P[2], P[3],
                      Mul(Neg(helmertParams.scale), Ppm),
                      Neg(arcsec2rad(helmertParams.rx)),
                      Neg(arcsec2rad(helmertParams.ry)),
                      Neg(arcsec2rad(helmertParams.rz)),
                      Neg(helmertParams.dx), Neg(helmertParams.dy), Neg(helmertParams.dz)) >>)

\* return ecefToGeodetic(Xt, Yt, Zt, a_psd, f_psd)
psdOfECEF(P) == Last(<< P, ecefToGeodetic(P[1], P[2], P[3], a_psd, f_psd) >>)

\* An argument the caller left out.
Undefined == << "undefined" >>

IsUndefined(h) == Len(h) = 1

\* A height without a default: arithmetic on undefined gives NaN.
heightNoDefault(h) == IF IsUndefined(h) THEN NaN ELSE h

\* The parameter h = 0 of wgs84ToPSD93 and psd93ToWGS84.
heightDefault(h) == IF IsUndefined(h) THEN Zero ELSE h

wgs84ToPSD93(lat, lon, h) ==
  psdOfECEF(HelmertForward(geodeticToECEF(lat, lon, heightDefault(h), a_wgs, f_wgs)))

\* return ecefToGeodetic(Xs, Ys, Zs, a, f)
wgsOfECEF(P) == Last(<< P, ecefToGeodetic(P[1], P[2], P[3], a_wgs, f_wgs) >>)

psd93ToWGS84(lat, lon, h) ==
  wgsOfECEF(HelmertInverse(geodeticToECEF(lat, lon, heightDefault(h), a_psd, f_psd)))

\* A central meridian on the eastern edge of the zone.
zoneCMShifted(zone) == 6 * zone - 180

\* The central meridian of a zone in degrees: zoneCM of psd93ToUTM.
zoneCM(zone) == 6 * zone - 183

\* The central meridian utmToPSD93 uses.
zoneCMInverse(zone) == 6 * zone - 183

\* const M of psd93ToUTM: the meridian arc to the latitude latRad.
utmM(a, e2, latRad) ==
  Mul(a,
    Sub(Add(Sub(
      Mul(Sub(Sub(Sub(One, DivInt(e2, 4)), DivInt(Mul(MulInt(3, e2), e2), 64)),
              DivInt(Mul(Mul(MulInt(5, e2), e2), e2), 256)),
          latRad),
      Mul(Add(Add(DivInt(MulInt(3, e2), 8), DivInt(Mul(MulInt(3, e2), e2), 32)),
              DivInt(Mul(Mul(MulInt(45, e2), e2), e2), 1024)),
          Sin(MulInt(2, latRad)))),
      Mul(Add(DivInt(Mul(MulInt(15, e2), e2), 256),
              DivInt(Mul(Mul(MulInt(45, e2), e2), e2), 1024)),
          Sin(MulInt(4, latRad)))),
      Mul(DivInt(Mul(Mul(MulInt(35, e2), e2), e2), 3072),
          Sin(MulInt(6, latRad)))))

\* const easting of psd93ToUTM.
utmEasting(e2, N, T, C, A) ==
  Add(FalseEasting,
      Mul(Mul(k0, N),
          Add(Add(A, DivInt(Mul(Add(Sub(One, T), C), Pow(A, 3)), 6)),
              DivInt(Mul(Sub(Add(Add(Sub(FromInt(5), MulInt(18, T)), Mul(T, T)),
                                 MulInt(72, C)),
                             Div(MulInt(58, e2), Sub(One, e2))),
                         Pow(A, 5)), 120))))

\* const northing of psd93ToUTM; tanLat is Math.tan(latRad).
utmNorthing(e2, N, tanLat, T, C, A, M) ==
  Mul(k0,
      Add(M,
          Mul(Mul(N, tanLat),
              Add(Add(DivInt(Mul(A, A), 2),
                      DivInt(Mul(Add(Add(Sub(FromInt(5), T), MulInt(9, C)),
                                     Mul(MulInt(4, C), C)),
                                 Pow(A, 4)), 24)),
                  DivInt(Mul(Sub(Add(Add(Sub(FromInt(61), MulInt(58, T)), Mul(T, T)),
                                     MulInt(600, C)),
                                 Div(MulInt(330, e2), Sub(One, e2))),
                             Pow(A, 6)), 720)))))

\* return { easting, northing, zone }
utmGrid(e2, N, tanLat, T, C, A, M, zone) ==
  Last(<< N, tanLat, T, C, A, M,
          [ easting |-> utmEasting(e2, N, T, C, A),
            northing |-> utmNorthing(e2, N, tanLat, T, C, A, M),
            zone |-> zone ] >>)

\* const T of psd93ToUTM.
utmT(e2, N, tanLat, C, A, M, zone) ==
  utmGrid(e2, N, tanLat, Mul(tanLat, tanLat), C, A, M, zone)

\* const N, C, A and M of psd93ToUTM, from the sine and cosine of latRad.
utmSeries(a, e2, latRad, sinLat, cosLat, lonRad, lon0, zone) ==
  Last(<< sinLat, cosLat,
          utmT(e2,
               primeVertical(a, e2, sinLat),
               Div(sinLat, cosLat),
               Mul(Mul(Div(e2, Sub(One, e2)), cosLat), cosLat),
               Mul(cosLat, Sub(lonRad, lon0)),
               utmM(a, e2, latRad),
               zone) >>)

utmOfRadians(a, e2, latRad, lonRad, lon0, zone) ==
  Last(<< e2, latRad, lonRad, lon0,
          utmSeries(a, e2, latRad, Sin(latRad), Cos(latRad), lonRad, lon0, zone) >>)

\* A psd93ToUTM that checks the zone against the longitude and returns no
\* grid coordinates and zone 0 when the longitude lies outside the zone.
psd93ToUTMChecked(lat, lon, zone) ==
  IF /\ ~IsNaN(lon)
     /\ LessEq(FromInt(zoneCM(zone) - 3), lon)
     /\ LessEq(lon, FromInt(zoneCM(zone) + 3))
  THEN utmOfRadians(a_psd, eccSq(f_psd), deg2rad(lat), deg2rad(lon),
                    deg2rad(FromInt(zoneCM(zone))), zone)
  ELSE [ easting |-> NaN, northing |-> NaN, zone |-> 0 ]

psd93ToUTM(lat, lon, zone) ==
  utmOfRadians(a_psd, eccSq(f_psd), deg2rad(lat), deg2rad(lon),
               deg2rad(FromInt(zoneCM(zone))), zone)

\* An x that keeps the false easting.
utmXNoOffset(easting) == easting

\* const x and const y of utmToPSD93.
utmX(easting) == Sub(easting, FalseEasting)

\* A y with the southern-hemisphere offset of 10,000,000 m taken off.
utmYOffset(northing) == Sub(northing, FromInt(10000000))

utmY(northing) == northing

\* const e1 of utmToPSD93.
utmE1(e2) == Div(Sub(One, Sqrt(Sub(One, e2))), Add(One, Sqrt(Sub(One, e2))))

\* const mu of utmToPSD93.
utmMu(M, a, e2) ==
  Div(M, Mul(a, Sub(Sub(Sub(One, DivInt(e2, 4)), DivInt(Mul(MulInt(3, e2), e2), 64)),
                    DivInt(Mul(Mul(MulInt(5, e2), e2), e2), 256))))

\* let phi1 of utmToPSD93: the footpoint latitude.
utmPhi1(e1, mu) ==
  Add(Add(Add(Add(mu,
    Mul(Sub(DivInt(MulInt(3, e1), 2), DivInt(MulInt(27, Pow(e1, 3)), 32)),
        Sin(MulInt(2, mu)))),
    Mul(Sub(DivInt(Mul(MulInt(21, e1), e1), 16), DivInt(MulInt(55, Pow(e1, 4)), 32)),
        Sin(MulInt(4, mu)))),
    Mul(DivInt(MulInt(151, Pow(e1, 3)), 96), Sin(MulInt(6, mu)))),
    Mul(DivInt(MulInt(1097, Pow(e1, 4)), 512), Sin(MulInt(8, mu))))

\* const lat of utmToPSD93; tanPhi is Math.tan(phi1).
utmLat(e2, phi1, tanPhi, N1, T1, C1, R1, D) ==
  rad2deg(
    Sub(phi1,
        Mul(Div(Mul(N1, tanPhi), R1),
            Add(Sub(DivInt(Mul(D, D), 2),
                    DivInt(Mul(Sub(Sub(Add(Add(FromInt(5), MulInt(3, T1)),
                                           MulInt(10, C1)),
                                       Mul(MulInt(4, C1), C1)),
                                   Div(MulInt(9, e2), Sub(One, e2))),
                               Pow(D, 4)), 24)),
                DivInt(Mul(Sub(Sub(Add(Add(Add(FromInt(61), MulInt(90, T1)),
                                           MulInt(298, C1)),
                                       Mul(MulInt(45, T1), T1)),
                                   Div(MulInt(252, e2), Sub(One, e2))),
                               Mul(MulInt(3, C1), C1)),
                           Pow(D, 6)), 720)))))

\* const lon of utmToPSD93; cosPhi is Math.cos(phi1).
utmLon(lon0, e2, cosPhi, T1, C1, D) ==
  rad2deg(
    Add(lon0,
        Div(Add(Sub(D, DivInt(Mul(Add(Add(One, MulInt(2, T1)), C1), Pow(D, 3)), 6)),
                DivInt(Mul(Add(Add(Sub(Add(Sub(FromInt(5), MulInt(2, C1)),
                                           MulInt(28, T1)),
                                       Mul(MulInt(3, C1), C1)),
                                   Div(MulInt(8, e2), Sub(One, e2))),
                               Mul(MulInt(24, T1), T1)),
                           Pow(D, 5)), 120)),
            cosPhi)))

\* return { lat, lon }
utmLatLon(lon0, e2, phi1, cosPhi, tanPhi, N1, T1, C1, R1, D) ==
  Last(<< tanPhi, N1, T1, C1, R1, D,
          [ lat |-> utmLat(e2, phi1, tanPhi, N1, T1, C1, R1, D),
            lon |-> utmLon(lon0, e2, cosPhi, T1, C1, D) ] >>)

\* const T1 and D of utmToPSD93.
utmT1D(x, lon0, e2, phi1, cosPhi, tanPhi, N1, C1, R1) ==
  utmLatLon(lon0, e2, phi1, cosPhi, tanPhi, N1, Mul(tanPhi, tanPhi), C1, R1,
            Div(x, Mul(N1, k0)))

\* const N1, C1 and R1 of utmToPSD93, from the sine and cosine of phi1.
utmFootpoint(x, lon0, a, e2, phi1, sinPhi, cosPhi) ==
  Last(<< sinPhi, cosPhi,
          utmT1D(x, lon0, e2, phi1, cosPhi,
                 Div(sinPhi, cosPhi),
                 primeVertical(a, e2, sinPhi),
                 Mul(Mul(Div(e2, Sub(One, e2)), cosPhi), cosPhi),
                 Div(Mul(a, Sub(One, e2)), Pow15(Sub(One, Mul(Mul(e2, sinPhi), sinPhi))))) >>)

utmOfPhi1(x, lon0, a, e2, phi1) ==
  Last(<< phi1,
          utmFootpoint(x, lon0, a, e2, phi1, Sin(phi1), Cos(phi1)) >>)

utmInverse(x, y, lon0, a, e2) ==
  Last(<< x, y, lon0, e2,
          utmOfPhi1(x, lon0, a, e2, utmPhi1(utmE1(e2), utmMu(Div(y, k0), a, e2))) >>)

utmToPSD93(easting, northing, zone) ==
  utmInverse(utmX(easting), utmY(northing),
             deg2rad(FromInt(zoneCMInverse(zone))), a_psd, eccSq(f_psd))

(***************************************************************************)
(* A run: a caller hands the point of the session to the four exported     *)
(* functions (window.coordSys), feeding results of earlier calls to later  *)
(* ones as the map click handler and addPoint of src/script.js do.         *)
(***************************************************************************)
\* The number of calls in a run.
MaxCalls == 3

\* The zones psd93ToUTM is written for (39N and 40N), and the latitudes a
\* session may hold.
Zones == { 39, 40 }

Lats == { NegRaw(FromInt(80)), Zero, Dec(23, 5880, 0, 0), FromInt(80) }

\* The longitudes of a zone: its western edge, its middle, its eastern edge.
ZoneLons(zone) ==
  IF zone = 39 THEN { FromInt(48), FromInt(51), FromInt(54) }
  ELSE { FromInt(54), FromInt(57), FromInt(60) }

\* Sessions off that grid, all in zone 40: the reference point of the map, a
\* longitude far outside the zone, a latitude out of range, no latitude.
ExtraSessions ==
  { [ lat |-> Dec(23, 5880, 0, 0), lon |-> Dec(58, 3829, 0, 0), zone |-> 40 ],
    [ lat |-> Dec(23, 5880, 0, 0), lon |-> NegRaw(FromInt(120)), zone |-> 40 ],
    [ lat |-> FromInt(100), lon |-> FromInt(57), zone |-> 40 ],
    [ lat |-> NaN, lon |-> FromInt(57), zone |-> 40 ] }

Sessions ==
  UNION { { [ lat |-> la, lon |-> lo, zone |-> z ] : la \in Lats, lo \in ZoneLons(z) }
          : z \in Zones }
    \cup ExtraSessions

NoCall == [ fn |-> "none", args |-> << >> ]

\* The JavaScript value null.
Null == << "null" >>

\* The text of an empty form input.
Empty == << >>

\* The events a run of the page handles.
MaxEvents == 7

\* The last reading of Date.now() a run takes; the first is the one before.
MaxClock == 10

\* The globals of script.js as its declarations leave them, the page as it is
\* served, and no file downloaded or being read.
ScriptStart ==
  /\ groups = << >>
  /\ currentGroup = Null
  /\ markers = {}
  /\ mapMarkers = << >>
  /\ polylines = << >>
  /\ distanceLabels = << >>
  /\ fields = [ easting |-> Empty, northing |-> Empty ]
  /\ groupsList = {}
  /\ now = MaxClock - 1
  /\ file = << >>
  /\ listeners = 0
  /\ reading = << >>
  /\ handled = 0

Init ==
  /\ helmertParams = HelmertInit
  /\ session \in Sessions
  /\ call = NoCall
  /\ ret = << >>
  /\ outcome = "none"
  /\ globalsRead = {}
  /\ prev = << >>
  /\ ScriptStart
  /\ NotRunning
  /\ conv = << >>

\* The calls made so far, oldest first, each with its result.
Calls ==
  IF call.fn = "none" THEN << >>
  ELSE Append(prev, [ fn |-> call.fn, args |-> call.args, ret |-> ret ])

\* What the calls of fn made so far returned.
Results(fn) == { Calls[i].ret : i \in { k \in DOMAIN Calls : Calls[k].fn = fn } }

\* A call of fn with args runs to its return statement: no statement of
\* src/coordsys.js throws, whatever the numbers are.
Return(fn, args, result, reads) ==
  /\ Len(Calls) < MaxCalls
  /\ prev' = Calls
  /\ call' = [ fn |-> fn, args |-> args ]
  /\ ret' = result
  /\ outcome' = "returned"
  /\ globalsRead' = reads
  /\ UNCHANGED << appVars, runVars >>

\* A wgs84ToPSD93 that leaves its scale negated in the parameter object.
Wgs84ToPSD93Writing ==
  /\ Return("wgs84ToPSD93", << session.lat, session.lon >>,
            wgs84ToPSD93(session.lat, session.lon, Undefined), { "helmertParams" })
  /\ helmertParams' = [ helmertParams EXCEPT !.scale = Neg(helmertParams.scale) ]
  /\ UNCHANGED session

\* coordSys.wgs84ToPSD93(lat, lng) on the point of the session; h is left
\* out.
Wgs84ToPSD93Call ==
  /\ Return("wgs84ToPSD93", << session.lat, session.lon >>,
            wgs84ToPSD93(session.lat, session.lon, Undefined), { "helmertParams" })
  /\ UNCHANGED << helmertParams, session >>

\* coordSys.psd93ToUTM(psdLat, psdLon, zone) on the point of the session or on
\* a point wgs84ToPSD93 returned.
Psd93ToUTMCall ==
  \E pt \in { << session.lat, session.lon >> }
              \cup { << r[1], r[2] >> : r \in Results("wgs84ToPSD93") } :
    /\ Return("psd93ToUTM", << pt[1], pt[2], session.zone >>,
              psd93ToUTM(pt[1], pt[2], session.zone), {})
    /\ UNCHANGED << helmertParams, session >>

\* coordSys.utmToPSD93(easting, northing, zone) on grid coordinates psd93ToUTM
\* returned.
UtmToPSD93Call ==
  \E u \in Results("psd93ToUTM") :
    /\ Return("utmToPSD93", << u.easting, u.northing, u.zone >>,
              utmToPSD93(u.easting, u.northing, u.zone), {})
    /\ UNCHANGED << helmertParams, session >>

\* coordSys.psd93ToWGS84(psdLat, psdLon) on a point wgs84ToPSD93 or utmToPSD93
\* returned; h is left out.
Psd93ToWGS84Call ==
  \E pt \in { << r[1], r[2] >> : r \in Results("wgs84ToPSD93") }
              \cup { << r.lat, r.lon >> : r \in Results("utmToPSD93") } :
    /\ Return("psd93ToWGS84", pt, psd93ToWGS84(pt[1], pt[2], Undefined),
              { "helmertParams" })
    /\ UNCHANGED << helmertParams, session >>

Next ==
  \/ Wgs84ToPSD93Call
  \/ Psd93ToUTMCall
  \/ UtmToPSD93Call
  \/ Psd93ToWGS84Call

Spec == Init /\ [][Next]_vars

(***************************************************************************)
(* src/script.js.  The file holds the application twice, lines 1-980 and   *)
(* lines 983-1857; the second text declares every global and function of   *)
(* the first again, so the declarations in force are the second ones, and  *)
(* those are the ones modelled.  (Loaded as one classic script the second  *)
(* `let map` of line 983 would be rejected as a redeclaration.)            *)
(***************************************************************************)

\* The position the map is clicked at: the centre it opens on.
ClickPositions == { << Dec(23, 5880, 0, 0), Dec(58, 3829, 0, 0) >> }

\* The texts typed into "groupName".
GroupNames == { "", "A" }

\* value.toFixed(3) of a value that is not negative, as the text of an
\* input: the whole part and the thousandths.
toFixed(v) ==
  << v[4] + Base * v[5] + Base * Base * v[6], v[3] \div 10 >>

\* utm.easting ? utm.easting.toFixed(3) : "": 0 and NaN give the empty text.
fieldText(v) ==
  IF IsNaN(v) \/ IsZero(v) THEN Empty
  ELSE toFixed(Add(v, Dec(0, 5, 0, 0)))

\* parseFloat of the text of an input.
parseFloat(text) ==
  IF text = Empty THEN NaN
  ELSE Add(FromInt(text[1]), Dec(0, text[2] * 10, 0, 0))

\* The map click handler up to the prompt: the texts it writes to the inputs
\* "easting" and "northing" for a click at pos, always in zone 40.
gridFields(utm) ==
  [ easting |-> fieldText(utm.easting), northing |-> fieldText(utm.northing) ]

\* A click handler that projects in zone 39.
clickGridZone39(psd) ==
  Last(<< psd, gridFields(psd93ToUTM(psd[1], psd[2], 39)) >>)

clickGrid(psd) ==
  Last(<< psd, gridFields(psd93ToUTM(psd[1], psd[2], 40)) >>)

clickFields(pos) == clickGrid(wgs84ToPSD93(pos[1], pos[2], Undefined))

\* addPoint: the latitude and longitude it computes from the two inputs.
pointLatLng(psd) ==
  Last(<< psd, psd93ToWGS84(psd.lat, psd.lon, Undefined) >>)

fieldLatLng(f) ==
  pointLatLng(utmToPSD93(parseFloat(f.easting), parseFloat(f.northing), 40))

\* What the handlers obtain from coordSys for the clicks of a run.
Conversions ==
  [ grid |-> [ pos \in ClickPositions |-> clickFields(pos) ],
    geo |-> [ f \in { clickFields(pos) : pos \in ClickPositions } |-> fieldLatLng(f) ] ]

NoFields == [ easting |-> Empty, northing |-> Empty ]

\* String(n) of a whole number, digit by digit, and parseInt of such a text.
RECURSIVE DecimalString(_)
DecimalString(n) ==
  IF n < 10 THEN << n >> ELSE Append(DecimalString(n \div 10), n % 10)

RECURSIVE parseInt(_)
parseInt(text) ==
  IF Len(text) = 1 THEN text[1]
  ELSE 10 * parseInt(SubSeq(text, 1, Len(text) - 1)) + text[Len(text)]

\* "group_" + Date.now()
groupKey(t) == << "group_", t >>

\* Object.keys(groups), and groups[groupId] being there.
groupKeys(gs) == { gs[i].id : i \in DOMAIN gs }

hasGroup(gs, gid) == gid \in groupKeys(gs)

pointIds(points) == { points[k].id : k \in DOMAIN points }

\* findPointById: the first point with this id in the first group, in key
\* order, that has one; null when no group has one.
findPointById(gs, pointId) ==
  IF \A i \in DOMAIN gs : pointId \notin pointIds(gs[i].points) THEN << >>
  ELSE << SelectSeq(gs[CHOOSE i \in DOMAIN gs :
                         /\ pointId \in pointIds(gs[i].points)
                         /\ \A j \in 1 .. (i - 1) : pointId \notin pointIds(gs[j].points)].points,
                    LAMBDA p : p.id = pointId)[1] >>

\* L.marker(...).addTo(map) for the point ids of a list, in order, and
\* map.removeLayer(markers[id]) for a set of ids.
RECURSIVE addLayers(_, _)
addLayers(layers, ids) ==
  IF ids = << >> THEN layers
  ELSE addLayers([ k \in DOMAIN layers \cup { Head(ids) } |->
                     IF k \notin DOMAIN layers THEN 1
                     ELSE IF k = Head(ids) THEN layers[k] + 1 ELSE layers[k] ],
                 Tail(ids))

removeLayers(layers, ids) ==
  [ k \in { j \in DOMAIN layers : j \notin ids \/ layers[j] > 1 } |->
      IF k \in ids THEN layers[k] - 1 ELSE layers[k] ]

\* updateMapDistances: a polyline through the points of every group that has
\* two or more, and a label between every two consecutive points of it.
\* An updateMapDistances that also draws for a group of one point.
drawnFromOne(gs) == { i \in DOMAIN gs : Len(gs[i].points) >= 1 }

drawn(gs) == { i \in DOMAIN gs : Len(gs[i].points) >= 2 }

polylinesOf(gs) ==
  [ gid \in { gs[i].id : i \in drawn(gs) } |->
      Len(gs[CHOOSE i \in drawn(gs) : gs[i].id = gid].points) ]

labelsOf(gs) ==
  [ gid \in { gs[i].id : i \in drawn(gs) } |->
      Len(gs[CHOOSE i \in drawn(gs) : gs[i].id = gid].points) - 1 ]

\* script.js polygons (line 6): the group ids that have a polygon on the map.
\* Its only writer is updateAreaCalculations (lines 694-774), whose only
\* caller is the updateCalculations of lines 634-637; the updateCalculations
\* in force (lines 1570-1573) calls updateDistanceCalculations and
\* updateMapDistances only, so the table stays as declared.
polygons == {}

\* A handler has run to its end: which one, on what, and how it ended.
Handled(fn, args, how) ==
  /\ call' = [ fn |-> fn, args |-> args ]
  /\ outcome' = how
  /\ handled < MaxEvents
  /\ handled' = handled + 1
  /\ UNCHANGED << convVars, conv, runVars >>

\* A handler other than the first runs only after DOMContentLoaded.
Loaded == call # NoCall

\* A load that creates a group "Default" and makes it current.
DOMContentLoadedWithGroup ==
  /\ call = NoCall
  /\ groups' = << [ id |-> groupKey(now), name |-> "Default", points |-> << >>, color |-> 0 ] >>
  /\ currentGroup' = groupKey(now)
  /\ groupsList' = { groupKey(now) }
  /\ Handled("DOMContentLoaded", << >>, "done")
  /\ UNCHANGED << markers, mapMarkers, polylines, distanceLabels, fields, now,
                  file, listeners, reading >>

\* The page has loaded: initializeMap, setupEventListeners, and a
\* createDefaultGroup that does nothing.
DOMContentLoaded ==
  /\ call = NoCall
  /\ Handled("DOMContentLoaded", << >>, "done")
  /\ UNCHANGED << groups, currentGroup, markers, mapMarkers, polylines,
                  distanceLabels, fields, groupsList, now, file, listeners, reading >>

\* The point addPoint builds from the inputs f at clock reading t; a blank
\* name becomes "Point " and the number of marker entries plus one.
newPoint(f, t) ==
  [ id |-> t,
    name |-> << "Point ", Cardinality(markers) + 1 >>,
    easting |-> parseFloat(f.easting),
    northing |-> parseFloat(f.northing),
    lat |-> conv.geo[f][1],
    lng |-> conv.geo[f][2],
    group |-> currentGroup ]

\* A push that appends the point to every group.
pushPointAll(gs, gid, point) ==
  [ i \in DOMAIN gs |-> [ gs[i] EXCEPT !.points = Append(@, point) ] ]

\* groups[currentGroup].points.push(point)
pushPoint(gs, gid, point) ==
  [ i \in DOMAIN gs |->
      IF gs[i].id = gid THEN [ gs[i] EXCEPT !.points = Append(@, point) ] ELSE gs[i] ]

\* addPoint with the inputs holding f: an alert when no group is current or
\* an input does not parse; otherwise the point, its marker, the distances,
\* emptied inputs and a fresh groups list.
addPoint(f, fn, args) ==
  IF currentGroup = Null \/ ~hasGroup(groups, currentGroup)
  THEN /\ fields' = f
       /\ Handled(fn, args, "no group")
       /\ UNCHANGED << groups, currentGroup, markers, mapMarkers, polylines,
                       distanceLabels, groupsList, now, file, listeners, reading >>
  ELSE IF IsNaN(parseFloat(f.easting)) \/ IsNaN(parseFloat(f.northing))
  THEN /\ fields' = f
       /\ Handled(fn, args, "invalid")
       /\ UNCHANGED << groups, currentGroup, markers, mapMarkers, polylines,
                       distanceLabels, groupsList, now, file, listeners, reading >>
  ELSE /\ \E t \in now .. MaxClock : now' = t
       /\ groups' = pushPoint(groups, currentGroup, newPoint(f, now'))
       /\ markers' = markers \cup { now' }
       /\ mapMarkers' = addLayers(mapMarkers, << now' >>)
       /\ polylines' = polylinesOf(groups')
       /\ distanceLabels' = labelsOf(groups')
       /\ fields' = NoFields
       /\ groupsList' = groupKeys(groups')
       /\ Handled(fn, args, "added")
       /\ UNCHANGED << currentGroup, file, listeners, reading >>

\* A click on the map at pos; the name prompt is answered with a blank name
\* or cancelled.
MapClick ==
  \E pos \in ClickPositions, answered \in BOOLEAN :
    /\ Loaded
    /\ IF answered THEN addPoint(conv.grid[pos], "click", pos)
       ELSE /\ fields' = conv.grid[pos]
            /\ Handled("click", pos, "cancelled")
            /\ UNCHANGED << groups, currentGroup, markers, mapMarkers, polylines,
                            distanceLabels, groupsList, now, file, listeners, reading >>

\* The button "addPoint", or Enter in an input.
AddPoint ==
  /\ Loaded
  /\ addPoint(fields, "addPoint", << >>)

\* group.points.filter((p) => p.id !== numericPointId) on the group of point.
withoutPoint(gs, gid, pointId) ==
  [ i \in DOMAIN gs |->
      IF gs[i].id = gid
      THEN [ gs[i] EXCEPT !.points = SelectSeq(@, LAMBDA p : p.id # pointId) ]
      ELSE gs[i] ]

\* removePoint(pointId), pointId a number or a text; found is what
\* findPointById returned, ok the answer to the confirmation.
removePoint(pointId, found, ok, args) ==
  IF found = << >> THEN
    /\ Handled("removePoint", args, "not found")
    /\ UNCHANGED << groups, currentGroup, markers, mapMarkers, polylines,
                    distanceLabels, fields, groupsList, now, file, listeners, reading >>
  ELSE IF ~ok THEN
    /\ Handled("removePoint", args, "cancelled")
    /\ UNCHANGED << groups, currentGroup, markers, mapMarkers, polylines,
                    distanceLabels, fields, groupsList, now, file, listeners, reading >>
  ELSE
    /\ groups' = withoutPoint(groups, found[1].group, pointId)
    /\ markers' = markers \ { pointId }
    /\ mapMarkers' = removeLayers(mapMarkers, { pointId } \cap markers)
    /\ polylines' = polylinesOf(groups')
    /\ distanceLabels' = labelsOf(groups')
    /\ groupsList' = groupKeys(groups')
    /\ Handled("removePoint", args, "removed")
    /\ UNCHANGED << currentGroup, fields, now, file, listeners, reading >>

\* The Remove button of a marker's popup hands removePoint the id as a text,
\* the one of the groups list hands it the number.
RemovePoint ==
  \E id \in DOMAIN mapMarkers \cup UNION { pointIds(groups[i].points) : i \in DOMAIN groups },
     ok \in BOOLEAN :
    /\ Loaded
    /\ \/ /\ id \in DOMAIN mapMarkers
          /\ removePoint(parseInt(DecimalString(id)),
                         findPointById(groups, parseInt(DecimalString(id))), ok,
                         << "text", DecimalString(id) >>)
       \/ /\ id \in UNION { pointIds(groups[i].points) : i \in DOMAIN groups }
          /\ removePoint(parseInt(DecimalString(id)),
                         findPointById(groups, parseInt(DecimalString(id))), ok,
                         << "number", id >>)

\* groups[groupId] = { name, points: [], color }: a new key goes last, a key
\* already there keeps its place and gets the new value.
putGroup(gs, group) ==
  IF hasGroup(gs, group.id)
  THEN [ i \in DOMAIN gs |-> IF gs[i].id = group.id THEN group ELSE gs[i] ]
  ELSE Append(gs, group)

\* createGroup with the text name in "groupName": an alert for a blank name,
\* otherwise a group keyed by the clock reading, which becomes current.
CreateGroup ==
  \E name \in GroupNames :
    /\ Loaded
    /\ IF name = "" THEN
         /\ Handled("createGroup", << name >>, "alert")
         /\ UNCHANGED << groups, currentGroup, markers, mapMarkers, polylines,
                         distanceLabels, fields, groupsList, now, file, listeners, reading >>
       ELSE
         /\ \E t \in now .. MaxClock : now' = t
         /\ groups' = putGroup(groups, [ id |-> groupKey(now'), name |-> name,
                                         points |-> << >>, color |-> Len(groups) % 6 ])
         /\ currentGroup' = groupKey(now')
         /\ groupsList' = groupKeys(groups')
         /\ Handled("createGroup", << name >>, "created")
         /\ UNCHANGED << markers, mapMarkers, polylines, distanceLabels, fields,
                         file, listeners, reading >>

\* selectGroup(groupId) from a Select button the groups list shows.
SelectGroup ==
  \E gid \in groupsList :
    /\ Loaded
    /\ currentGroup' = gid
    /\ groupsList' = groupKeys(groups)
    /\ Handled("selectGroup", << gid >>, "selected")
    /\ UNCHANGED << groups, markers, mapMarkers, polylines, distanceLabels,
                    fields, now, file, listeners, reading >>

\* delete groups[groupId]
withoutGroup(gs, gid) == SelectSeq(gs, LAMBDA g : g.id # gid)

\* The marker entries deleteGroup removes: those of the points of the group.
groupMarkers(gs, gid) ==
  UNION { pointIds(gs[i].points) : i \in { j \in DOMAIN gs : gs[j].id = gid } }
    \cap markers

\* deleteGroup(groupId) from a Delete button the groups list shows; ok is the
\* answer to the confirmation.
DeleteGroup ==
  \E gid \in groupsList, ok \in BOOLEAN :
    /\ Loaded
    /\ IF ~hasGroup(groups, gid) \/ ~ok THEN
         /\ Handled("deleteGroup", << gid >>,
                    IF hasGroup(groups, gid) THEN "cancelled" ELSE "not found")
         /\ UNCHANGED << groups, currentGroup, markers, mapMarkers, polylines,
                         distanceLabels, fields, groupsList, now, file, listeners, reading >>
       ELSE
         /\ mapMarkers' = removeLayers(mapMarkers, groupMarkers(groups, gid))
         /\ markers' = markers \ groupMarkers(groups, gid)
         /\ groups' = withoutGroup(groups, gid)
         /\ currentGroup' =
              IF currentGroup # gid THEN currentGroup
              ELSE IF groups' = << >> THEN Null ELSE groups'[1].id
         /\ polylines' = polylinesOf(groups')
         /\ distanceLabels' = labelsOf(groups')
         /\ groupsList' = groupKeys(groups')
         /\ Handled("deleteGroup", << gid >>, "deleted")
         /\ UNCHANGED << fields, now, file, listeners, reading >>

\* What clearAll does to the globals and the map once confirmed; it does not
\* render the groups list again.
clearAll ==
  /\ mapMarkers' = removeLayers(mapMarkers, markers)
  /\ markers' = {}
  /\ polylines' = polylinesOf(<< >>)
  /\ distanceLabels' = labelsOf(<< >>)
  /\ groups' = << >>
  /\ currentGroup' = Null

\* The button "clearAll"; ok is the answer to the confirmation.
ClearAll ==
  \E ok \in BOOLEAN :
    /\ Loaded
    /\ IF ok THEN clearAll
       ELSE UNCHANGED << groups, currentGroup, markers, mapMarkers, polylines, distanceLabels >>
    /\ Handled("clearAll", << >>, IF ok THEN "cleared" ELSE "cancelled")
    /\ UNCHANGED << fields, groupsList, now, file, listeners, reading >>

\* JSON.stringify followed by JSON.parse: a number that is not finite comes
\* back as null, everything else as it was.
jsonNumber(v) == IF IsNaN(v) THEN Null ELSE v

jsonPoint(p) ==
  [ p EXCEPT !.easting = jsonNumber(@), !.northing = jsonNumber(@),
             !.lat = jsonNumber(@), !.lng = jsonNumber(@) ]

stringify(gs) ==
  [ i \in DOMAIN gs |->
      [ gs[i] EXCEPT !.points = [ k \in DOMAIN @ |-> jsonPoint(@[k]) ] ] ]

\* The button "exportData": the groups are downloaded as a file.
ExportData ==
  /\ Loaded
  /\ file' = << [ groups |-> stringify(groups) ] >>
  /\ Handled("exportData", << >>, "downloaded")
  /\ UNCHANGED << groups, currentGroup, markers, mapMarkers, polylines,
                  distanceLabels, fields, groupsList, now, listeners, reading >>

\* Files of another origin the user may pick: a text JSON.parse rejects, an
\* object without groups, and groups with a point whose lat and lng are null,
\* on which point.lat.toFixed(6) of addMarkerToMap throws.
ForeignFiles ==
  { [ text |-> "not JSON" ],
    [ exportDate |-> "2026-11-04" ],
    [ groups |-> << [ id |-> groupKey(MaxClock), name |-> "A", color |-> 0,
                      points |-> << [ id |-> MaxClock, name |-> << "Point ", 1 >>,
                                      easting |-> Null, northing |-> Null,
                                      lat |-> Null, lng |-> Null,
                                      group |-> groupKey(MaxClock) ] >> ] >> ] }

\* importData: the file dialog opens and one more "change" listener is
\* registered; when the user picks a file, the downloaded one or one of
\* files, every listener registered so far starts a FileReader on it.
importData(files) ==
  \E picked \in { << >>, file } \cup { << d >> : d \in files } :
    /\ Loaded
    /\ listeners' = listeners + 1
    /\ reading' = IF picked # << >> THEN reading \o [ i \in 1 .. listeners' |-> picked[1] ]
                  ELSE reading
    /\ Handled("importData", << >>, IF picked # << >> THEN "reading" ELSE "no file")
    /\ UNCHANGED << groups, currentGroup, markers, mapMarkers, polylines,
                    distanceLabels, fields, groupsList, now, file >>

\* The button "importData" of a user who has no file but the downloaded one.
ImportData == importData({})

\* The button "importData" of a user who has foreign files as well.
ImportForeign == importData(ForeignFiles)

\* The points of all groups, in key order.
RECURSIVE allPoints(_)
allPoints(gs) ==
  IF gs = << >> THEN << >> ELSE Head(gs).points \o allPoints(Tail(gs))

\* The points addMarkerToMap gets through before L.marker throws on a
\* latitude or longitude that is not a number.
RECURSIVE marked(_)
marked(points) ==
  IF points = << >> THEN << >>
  ELSE IF Head(points).lat = Null \/ Head(points).lng = Null THEN << >>
  ELSE << Head(points).id >> \o marked(Tail(points))

\* The layer of the point addMarkerToMap fails on: L.marker(...).addTo(map)
\* of line 1172 comes before the popup text, so the layer is on the map when
\* Leaflet accepts the coordinates and is not when Leaflet rejects them.
failedLayer(points, layered) ==
  IF layered THEN << points[Len(marked(points)) + 1].id >> ELSE << >>

\* The try block of reader.onload from clearAllData on: groups = data.groups,
\* a marker per point, the distances, the groups list, the first group made
\* current; an exception on the way is caught and ends the handler there.
importGroups(data) ==
  /\ groups' = data.groups
  /\ markers' = { marked(allPoints(groups'))[k] : k \in DOMAIN marked(allPoints(groups')) }
  /\ IF Len(marked(allPoints(groups'))) = Len(allPoints(groups'))
     THEN /\ mapMarkers' = addLayers(removeLayers(mapMarkers, markers),
                                     marked(allPoints(groups')))
          /\ polylines' = polylinesOf(groups')
          /\ distanceLabels' = labelsOf(groups')
          /\ groupsList' = groupKeys(groups')
          /\ currentGroup' = IF groups' = << >> THEN Null ELSE groups'[1].id
          /\ Handled("onload", << >>, "imported")
     ELSE /\ \E layered \in BOOLEAN :
               mapMarkers' = addLayers(removeLayers(mapMarkers, markers),
                                       marked(allPoints(groups'))
                                         \o failedLayer(allPoints(groups'), layered))
          /\ polylines' = polylinesOf(<< >>)
          /\ distanceLabels' = labelsOf(<< >>)
          /\ groupsList' = groupsList
          /\ currentGroup' = Null
          /\ Handled("onload", << >>, "error")

\* reader.onload for the oldest read: JSON.parse throws on a text that is
\* not JSON, a file without groups gets the "Invalid file format" alert, and
\* any other file is imported.
ReadLoaded ==
  /\ reading # << >>
  /\ reading' = Tail(reading)
  /\ IF "groups" \in DOMAIN Head(reading) THEN importGroups(Head(reading))
     ELSE /\ Handled("onload", << >>,
                     IF "text" \in DOMAIN Head(reading) THEN "error" ELSE "invalid format")
          /\ UNCHANGED << groups, currentGroup, markers, mapMarkers, polylines,
                          distanceLabels, groupsList >>
  /\ UNCHANGED << fields, now, file, listeners >>

\* The page before DOMContentLoaded, with the results of coordSys at hand.
AppInit ==
  /\ helmertParams = HelmertInit
  /\ session = [ lat |-> Dec(23, 5880, 0, 0), lon |-> Dec(58, 3829, 0, 0), zone |-> 40 ]
  /\ call = NoCall
  /\ ret = << >>
  /\ outcome = "none"
  /\ globalsRead = {}
  /\ prev = << >>
  /\ ScriptStart
  /\ NotRunning
  /\ conv = Conversions

AppNext ==
  \/ DOMContentLoaded
  \/ MapClick
  \/ AddPoint
  \/ RemovePoint
  \/ CreateGroup
  \/ SelectGroup
  \/ DeleteGroup
  \/ ClearAll
  \/ ExportData
  \/ ImportData
  \/ ReadLoaded

AppSpec == AppInit /\ [][AppNext]_vars

\* The page in the hands of a user who creates groups, clicks the map,
\* exports, and imports files of any origin.
ImportNext ==
  \/ DOMContentLoaded
  \/ MapClick
  \/ CreateGroup
  \/ ExportData
  \/ ImportForeign
  \/ ReadLoaded

ImportSpec == AppInit /\ [][ImportNext]_vars

(***************************************************************************)
(* The two 7-parameter steps of src/coordsys.js on their own: the steps    *)
(* wgs84ToPSD93 and psd93ToWGS84 take between geodeticToECEF and           *)
(* ecefToGeodetic, applied to Cartesian points one after the other.        *)
(***************************************************************************)

\* A run starts from the Cartesian point wgs84ToPSD93 computes for the point
\* of the session (lines 64-66).
HelmertStart ==
  /\ helmertParams = HelmertInit
  /\ session \in { ss \in Sessions : ~IsNaN(ss.lat) }
  /\ call = NoCall
  /\ ret = geodeticToECEF(session.lat, session.lon, Zero, a_wgs, f_wgs)
  /\ outcome = "none"
  /\ globalsRead = {}
  /\ prev = << >>
  /\ ScriptStart
  /\ NotRunning
  /\ conv = << >>

\* One step on the point reached so far, which joins the points before it.
HelmertStep(fn, result) ==
  /\ Len(prev) < MaxCalls
  /\ prev' = Append(prev, ret)
  /\ call' = [ fn |-> fn, args |-> ret ]
  /\ ret' = result
  /\ outcome' = "returned"
  /\ globalsRead' = { "helmertParams" }
  /\ UNCHANGED << helmertParams, session, appVars, runVars >>

\* Lines 68-78 of wgs84ToPSD93.
ForwardStep == HelmertStep("forward", HelmertForward(ret))

\* Lines 92-102 of psd93ToWGS84.
InverseStep == HelmertStep("inverse", HelmertInverse(ret))

HelmertNext ==
  \/ ForwardStep
  \/ InverseStep

HelmertSpec == HelmertStart /\ [][HelmertNext]_vars
(***************************************************************************)
(* The two grid functions on the central meridian of a zone: psd93ToUTM on *)
(* points of longitude 6 * zone - 183, utmToPSD93 on what it returned and  *)
(* on the easting 500,000 with a northing of the caller's.                 *)
(***************************************************************************)

\* Zones from both ends of the grid besides the two the application uses.
MeridianZones == { 1, 39, 40, 60 }

MeridianSessions ==
  { [ lat |-> la, lon |-> FromInt(zoneCM(z)), zone |-> z ] : la \in Lats, z \in MeridianZones }

\* Northings of the equator, of the map's region and of the far north.
MeridianNorthings == { Zero, FromInt(2500000), FromInt(8000000) }

MeridianInit ==
  /\ helmertParams = HelmertInit
  /\ session \in MeridianSessions
  /\ call = NoCall
  /\ ret = << >>
  /\ outcome = "none"
  /\ globalsRead = {}
  /\ prev = << >>
  /\ ScriptStart
  /\ NotRunning
  /\ conv = << >>

\* coordSys.utmToPSD93(500000, northing, zone)
UtmToPSD93OnMeridian ==
  \E northing \in MeridianNorthings :
    /\ Return("utmToPSD93", << FromInt(500000), northing, session.zone >>,
              utmToPSD93(FromInt(500000), northing, session.zone), {})
    /\ UNCHANGED << helmertParams, session >>

MeridianNext ==
  \/ Psd93ToUTMCall
  \/ UtmToPSD93Call
  \/ UtmToPSD93OnMeridian

MeridianSpec == MeridianInit /\ [][MeridianNext]_vars
(***************************************************************************)
(* src/coordsys.js statement by statement: the order in which a call of an *)
(* exported function executes the statements of the file, the calls of one *)
(* function by another included.  The numbers of a call are those the      *)
(* operators above compute; what is followed here is the flow of control.  *)
(***************************************************************************)

\* The statements a call may execute.
MaxSteps == 45

\* A statement: the line it starts on and the functions of the file it
\* calls, in the order of the calls.
Stmt(line, calls) == [ line |-> line, calls |-> calls ]

\* Statements that call no function of the file (Math functions apart).
Plain(lines) == [ i \in DOMAIN lines |-> Stmt(lines[i], << >>) ]

deg2radBody == Plain(<< 19 >>)

rad2degBody == Plain(<< 23 >>)

arcsec2radBody == Plain(<< 28 >>)

geodeticToECEFBody ==
  << Stmt(33, << "deg2rad" >>), Stmt(34, << "deg2rad" >>) >>
    \o Plain(<< 35, 36, 37, 38, 39, 40 >>)

\* An ecefToGeodetic that goes through the latitude and N a second time.
ecefToGeodeticTwoPasses ==
  Plain(<< 46, 47, 48, 49, 50, 51, 55, 51, 55, 56 >>)
    \o << Stmt(57, << "rad2deg" >>), Stmt(58, << "rad2deg" >>) >>

ecefToGeodeticBody ==
  Plain(<< 46, 47, 48, 49, 50, 51, 55, 56 >>)
    \o << Stmt(57, << "rad2deg" >>), Stmt(58, << "rad2deg" >>) >>

wgs84ToPSD93Body ==
  Plain(<< 64, 65 >>) \o << Stmt(66, << "geodeticToECEF" >>) >>
    \o Plain(<< 68 >>)
    \o << Stmt(69, << "arcsec2rad" >>), Stmt(70, << "arcsec2rad" >>),
          Stmt(71, << "arcsec2rad" >>) >>
    \o Plain(<< 72, 73, 74, 76, 77, 78, 80, 81 >>)
    \o << Stmt(82, << "ecefToGeodetic" >>) >>

psd93ToWGS84Body ==
  Plain(<< 88, 89 >>) \o << Stmt(90, << "geodeticToECEF" >>) >>
    \o Plain(<< 92 >>)
    \o << Stmt(93, << "arcsec2rad" >>), Stmt(94, << "arcsec2rad" >>),
          Stmt(95, << "arcsec2rad" >>) >>
    \o Plain(<< 96, 97, 98, 100, 101, 102, 104, 105 >>)
    \o << Stmt(106, << "ecefToGeodetic" >>) >>

psd93ToUTMBody ==
  Plain(<< 112, 113, 114, 115, 116 >>)
    \o << Stmt(117, << "deg2rad" >>), Stmt(118, << "deg2rad" >>) >>
    \o Plain(<< 119 >>) \o << Stmt(120, << "deg2rad" >>) >>
    \o Plain(<< 121, 122, 123, 124, 125, 133, 142, 152 >>)

utmToPSD93Body ==
  Plain(<< 157, 158, 159, 160, 161, 162, 163 >>)
    \o << Stmt(164, << "deg2rad" >>) >>
    \o Plain(<< 165, 166, 167, 168, 170, 176, 177, 178, 179, 181 >>)
    \o << Stmt(182, << "rad2deg" >>), Stmt(198, << "rad2deg" >>) >>
    \o Plain(<< 212 >>)

Body(fn) ==
  CASE fn = "deg2rad" -> deg2radBody
    [] fn = "rad2deg" -> rad2degBody
    [] fn = "arcsec2rad" -> arcsec2radBody
    [] fn = "geodeticToECEF" -> geodeticToECEFBody
    [] fn = "ecefToGeodetic" -> ecefToGeodeticBody
    [] fn = "wgs84ToPSD93" -> wgs84ToPSD93Body
    [] fn = "psd93ToWGS84" -> psd93ToWGS84Body
    [] fn = "psd93ToUTM" -> psd93ToUTMBody
    [] fn = "utmToPSD93" -> utmToPSD93Body

\* The function executing, and the statement it is at.
Top == stack[Len(stack)]

Current == Body(Top.fn)[Top.at]

\* A function entered at its first statement; made counts the calls of the
\* statement at hand that have returned.
Frame(fn) == [ fn |-> fn, at |-> 1, made |-> 0 ]

\* What the exported functions return for the point of a session, utmToPSD93
\* for the grid coordinates psd93ToUTM returns for it.
ValuesFrom(s, grid) ==
  Last(<< grid,
          [ wgs84ToPSD93 |-> wgs84ToPSD93(s.lat, s.lon, Undefined),
            psd93ToWGS84 |-> psd93ToWGS84(s.lat, s.lon, Undefined),
            psd93ToUTM |-> grid,
            utmToPSD93 |-> utmToPSD93(grid.easting, grid.northing, grid.zone) ] >>)

Values(s) == ValuesFrom(s, psd93ToUTM(s.lat, s.lon, s.zone))

\* A caller calls an exported function.
Enter(fn, args) ==
  /\ stack = << >>
  /\ call' = [ fn |-> fn, args |-> args ]
  /\ stack' = << Frame(fn) >>
  /\ trace' = << >>
  /\ ret' = << >>
  /\ outcome' = "running"
  /\ globalsRead' = {}
  /\ UNCHANGED << helmertParams, prev, session, appVars >>

EnterWgs84ToPSD93 == Enter("wgs84ToPSD93", << session.lat, session.lon >>)

EnterPsd93ToWGS84 == Enter("psd93ToWGS84", << session.lat, session.lon >>)

EnterPsd93ToUTM == Enter("psd93ToUTM", << session.lat, session.lon, session.zone >>)

\* utmToPSD93 on the grid coordinates psd93ToUTM has just returned.
EnterUtmToPSD93 ==
  /\ call.fn = "psd93ToUTM"
  /\ outcome = "returned"
  /\ ret = conv.psd93ToUTM
  /\ Enter("utmToPSD93", << ret.easting, ret.northing, ret.zone >>)

\* The statement at hand calls the next function it has to call.
CallStep ==
  /\ stack # << >>
  /\ Top.made < Len(Current.calls)
  /\ stack' = Append(stack, Frame(Current.calls[Top.made + 1]))
  /\ UNCHANGED << convVars, call, outcome, appVars, trace >>

\* The statement at hand is executed and control passes to the next one.
Statement ==
  /\ stack # << >>
  /\ Len(trace) < MaxSteps
  /\ Top.made = Len(Current.calls)
  /\ Top.at < Len(Body(Top.fn))
  /\ trace' = Append(trace, Current.line)
  /\ stack' = [ stack EXCEPT ![Len(stack)] = [ fn |-> Top.fn, at |-> Top.at + 1, made |-> 0 ] ]
  /\ UNCHANGED << convVars, call, outcome, appVars >>

\* The last statement of a function called by another: control goes back to
\* the statement that made the call.
ReturnToCaller ==
  /\ Len(stack) > 1
  /\ Len(trace) < MaxSteps
  /\ Top.made = Len(Current.calls)
  /\ Top.at = Len(Body(Top.fn))
  /\ trace' = Append(trace, Current.line)
  /\ stack' = [ SubSeq(stack, 1, Len(stack) - 1)
                  EXCEPT ![Len(stack) - 1].made = stack[Len(stack) - 1].made + 1 ]
  /\ UNCHANGED << convVars, call, outcome, appVars >>

\* The return statement of the exported function.
ReturnValue ==
  /\ Len(stack) = 1
  /\ Len(trace) < MaxSteps
  /\ Top.made = Len(Current.calls)
  /\ Top.at = Len(Body(Top.fn))
  /\ trace' = Append(trace, Current.line)
  /\ stack' = << >>
  /\ ret' = conv[call.fn]
  /\ outcome' = "returned"
  /\ globalsRead' = IF call.fn \in { "wgs84ToPSD93", "psd93ToWGS84" }
                    THEN { "helmertParams" } ELSE {}
  /\ UNCHANGED << helmertParams, prev, session, call, appVars >>

\* The engine runs a call to completion once it has begun.
Run ==
  \/ CallStep
  \/ Statement
  \/ ReturnToCaller
  \/ ReturnValue

\* The points a call is followed on: those off the grid of zones, and one on
\* the equator in zone 39.
StepSessions == ExtraSessions \cup { [ lat |-> Zero, lon |-> FromInt(51), zone |-> 39 ] }

StepInit ==
  /\ helmertParams = HelmertInit
  /\ session \in StepSessions
  /\ call = NoCall
  /\ ret = << >>
  /\ outcome = "none"
  /\ globalsRead = {}
  /\ prev = << >>
  /\ ScriptStart
  /\ NotRunning
  /\ conv = Values(session)

StepNext ==
  \/ EnterWgs84ToPSD93
  \/ EnterPsd93ToWGS84
  \/ EnterPsd93ToUTM
  \/ EnterUtmToPSD93
  \/ CallStep
  \/ Statement
  \/ ReturnToCaller
  \/ ReturnValue

StepSpec == StepInit /\ [][StepNext]_vars /\ WF_vars(Run)



(***************************************************************************)
(* What the properties below measure with.                                 *)
(***************************************************************************)
Finite(v) == ~IsNaN(v)

\* An upper bound, in metres, of the ground distance between two points given
\* in degrees: a degree of arc is shorter than 111,700 m on both ellipsoids.
GroundMetres(lat1, lon1, lat2, lon2) ==
  MulInt(111700, Add(Abs(Sub(lat1, lat2)), Abs(Sub(lon1, lon2))))

\* 6 * zone - 183 degrees, as a number of the arithmetic above.
Meridian(zone) == FromInt(6 * zone - 183)

\* v lies in [lo, hi]; all three are finite.
Between(lo, v, hi) == Finite(v) /\ LessEq(lo, v) /\ LessEq(v, hi)

\* The degrees between a longitude and the central meridian of a zone.
OffMeridian(lon, zone) == Abs(Sub(lon, Meridian(zone)))

DatumFns == { "wgs84ToPSD93", "psd93ToWGS84" }

\* The numbers a call was given and the numbers it returned.
ArgNumbers(c) == { c.args[1], c.args[2] }

RetNumbers(c) ==
  IF c.fn \in DatumFns THEN { c.ret[1], c.ret[2], c.ret[3] }
  ELSE IF c.fn = "psd93ToUTM" THEN { c.ret.easting, c.ret.northing }
  ELSE { c.ret.lat, c.ret.lon }

FiniteArgs(c) == \A v \in ArgNumbers(c) : Finite(v)

\* Call j was given the latitude and longitude call i returned.
FedDatum(i, j) ==
  /\ Calls[i].fn = "wgs84ToPSD93"
  /\ Calls[j].fn = "psd93ToWGS84"
  /\ Calls[j].args = << Calls[i].ret[1], Calls[i].ret[2] >>

\* Call j was given the grid coordinates and zone call i returned.
FedGrid(i, j) ==
  /\ Calls[i].fn = "psd93ToUTM"
  /\ Calls[j].fn = "utmToPSD93"
  /\ Calls[j].args = << Calls[i].ret.easting, Calls[i].ret.northing, Calls[i].ret.zone >>

(***************************************************************************)
(* C1                                                                      *)
(***************************************************************************)
\* A wgs84ToPSD93 call on a latitude in [-80, 80].
C1_InRange(i) ==
  /\ Calls[i].fn = "wgs84ToPSD93"
  /\ FiniteArgs(Calls[i])
  /\ LessEq(Abs(Calls[i].args[1]), FromInt(80))

\* C1: datum round trip.  For a latitude in [-80, 80] and any longitude,
\* psd93ToWGS84 applied to the latitude and longitude wgs84ToPSD93 returned
\* gives a point within 1 metre of ground distance of the original point.
C1_DatumRoundTrip ==
  \A i \in DOMAIN Calls : \A j \in DOMAIN Calls :
    (FedDatum(i, j) /\ C1_InRange(i))
      => LessEq(GroundMetres(Calls[i].args[1], Calls[i].args[2],
                             Calls[j].ret[1], Calls[j].ret[2]), One)

\* The round trip has been made from latitude 80 and come back within a metre.
C1_Witness ==
  \E i \in DOMAIN Calls : \E j \in DOMAIN Calls :
    /\ FedDatum(i, j) /\ C1_InRange(i)
    /\ Calls[i].args[1] = FromInt(80)
    /\ LessEq(GroundMetres(Calls[i].args[1], Calls[i].args[2],
                           Calls[j].ret[1], Calls[j].ret[2]), One)

(***************************************************************************)
(* C2                                                                      *)
(***************************************************************************)
\* A psd93ToUTM call on a latitude in [-90, 90] and a longitude within 3
\* degrees of the central meridian of its zone.
C2_InZone(i) ==
  /\ Calls[i].fn = "psd93ToUTM"
  /\ FiniteArgs(Calls[i])
  /\ LessEq(Abs(Calls[i].args[1]), FromInt(90))
  /\ LessEq(OffMeridian(Calls[i].args[2], Calls[i].args[3]), FromInt(3))

\* C2: UTM round trip.  For a longitude within 3 degrees of the central
\* meridian of the zone, utmToPSD93 applied to the easting, northing and zone
\* psd93ToUTM returned recovers the point within less than a metre of ground
\* distance.
C2_UtmRoundTrip ==
  \A i \in DOMAIN Calls : \A j \in DOMAIN Calls :
    (FedGrid(i, j) /\ C2_InZone(i))
      => Less(GroundMetres(Calls[i].args[1], Calls[i].args[2],
                           Calls[j].ret.lat, Calls[j].ret.lon), One)

\* The round trip has been made from the edge of a zone, 3 degrees off its
\* central meridian, and come back within a metre.
C2_Witness ==
  \E i \in DOMAIN Calls : \E j \in DOMAIN Calls :
    /\ FedGrid(i, j) /\ C2_InZone(i)
    /\ OffMeridian(Calls[i].args[2], Calls[i].args[3]) = FromInt(3)
    /\ Less(GroundMetres(Calls[i].args[1], Calls[i].args[2],
                         Calls[j].ret.lat, Calls[j].ret.lon), One)

(***************************************************************************)
(* C3                                                                      *)
(***************************************************************************)
\* The Cartesian point wgs84ToPSD93 hands to its 7-parameter step when it is
\* given the latitude lat and the longitude lon.
C3_Point(lat, lon) == geodeticToECEF(lat, lon, Zero, a_wgs, f_wgs)

\* The largest of |P[k] - Q[k]| is at most tol.
C3_Near(P, Q, tol) == \A k \in 1..3 : LessEq(Abs(Sub(P[k], Q[k])), tol)

\* The forward step followed by the inverse step brings P back within near
\* metres per coordinate, and if far is a distance, not within far metres.
C3_Back(P, Q, near, far) ==
  C3_Near(P, Q, near) /\ (Finite(far) => ~C3_Near(P, Q, far))

C3_BackFrom(P, near, far) == C3_Back(P, HelmertInverse(HelmertForward(P)), near, far)

\* The call just made is wgs84ToPSD93 on a point of the ellipsoid.
C3_OnGround == call.fn = "wgs84ToPSD93" /\ FiniteArgs(call)

\* C3: Helmert inverse consistency.  For a Cartesian point on the ellipsoid,
\* the forward 7-parameter step of wgs84ToPSD93 followed by the inverse step
\* of psd93ToWGS84 (all seven parameters negated, same linear form) returns
\* the point within 5 centimetres per coordinate: the inverse is the
\* first-order inverse of the forward step, not its exact inverse.
C3_HelmertInverse ==
  C3_OnGround
    => C3_BackFrom(C3_Point(call.args[1], call.args[2]), Dec(0, 500, 0, 0), NaN)

\* The two steps have been applied to the point of a call and brought it
\* back within 5 centimetres but not within a millimetre.
C3_Witness ==
  /\ C3_OnGround
  /\ C3_BackFrom(C3_Point(call.args[1], call.args[2]), Dec(0, 500, 0, 0), Dec(0, 10, 0, 0))

\* C3 as stated: the two steps return the point within floating-point
\* tolerance, here a generous millimetre per coordinate.
C3_Original ==
  C3_OnGround
    => C3_BackFrom(C3_Point(call.args[1], call.args[2]), Dec(0, 10, 0, 0), NaN)

(***************************************************************************)
(* C4                                                                      *)
(***************************************************************************)
\* Call i is wgs84ToPSD93 on (23.588, 58.3829) and call j is psd93ToUTM on
\* the point it returned, in zone 40.
C4_Reference(i, j) ==
  /\ Calls[i].fn = "wgs84ToPSD93"
  /\ Calls[i].args = << Dec(23, 5880, 0, 0), Dec(58, 3829, 0, 0) >>
  /\ Calls[j].fn = "psd93ToUTM"
  /\ Calls[j].args = << Calls[i].ret[1], Calls[i].ret[2], 40 >>

\* C4: known reference point.  WGS84 (23.588, 58.3829) converted with
\* wgs84ToPSD93 and then psd93ToUTM in zone 40 has an easting between 641,000
\* and 642,000 (about 641,405) and a northing between 2,609,000 and 2,610,000
\* (about 2,609,620).
C4_ReferencePoint ==
  \A i \in DOMAIN Calls : \A j \in DOMAIN Calls :
    C4_Reference(i, j)
      => /\ Between(FromInt(641000), Calls[j].ret.easting, FromInt(642000))
         /\ Between(FromInt(2609000), Calls[j].ret.northing, FromInt(2610000))

\* The reference point has been converted and its easting is 641,405 to the
\* metre.
C4_Witness ==
  \E i \in DOMAIN Calls : \E j \in DOMAIN Calls :
    /\ C4_Reference(i, j)
    /\ Between(FromInt(641405), Calls[j].ret.easting, FromInt(641406))

\* C4 as stated: the easting of the reference point lies between 490,000 and
\* 510,000.
C4_Original ==
  \A i \in DOMAIN Calls : \A j \in DOMAIN Calls :
    C4_Reference(i, j)
      => Between(FromInt(490000), Calls[j].ret.easting, FromInt(510000))

(***************************************************************************)
(* C5                                                                      *)
(***************************************************************************)
\* A psd93ToUTM call on a latitude in [-90, 90].
C5_Projected(i) ==
  /\ Calls[i].fn = "psd93ToUTM"
  /\ FiniteArgs(Calls[i])
  /\ LessEq(Abs(Calls[i].args[1]), FromInt(90))

\* Call i projects a point 3 degrees off the central meridian of its zone.
C5_OnEdge(i) ==
  C5_Projected(i) /\ OffMeridian(Calls[i].args[2], Calls[i].args[3]) = FromInt(3)

\* Call i projects a point more than 3 degrees off the central meridian.
C5_Outside(i) ==
  C5_Projected(i) /\ Less(FromInt(3), OffMeridian(Calls[i].args[2], Calls[i].args[3]))

\* C5: zone boundary behaviour.  On the edge of a zone, 3 degrees off its
\* central meridian, psd93ToUTM returns a finite easting between 160,000 and
\* 840,000 (up to about 334,000 m off the false easting, at the equator);
\* further from the central meridian it still returns a finite easting.
C5_ZoneBoundary ==
  \A i \in DOMAIN Calls :
    /\ C5_OnEdge(i)
         => Between(FromInt(160000), Calls[i].ret.easting, FromInt(840000))
    /\ C5_Outside(i) => Finite(Calls[i].ret.easting)

\* A point on the eastern edge of a zone at the equator has been projected to
\* an easting more than 300,000 m off the false easting.
C5_Witness ==
  \E i \in DOMAIN Calls :
    /\ C5_OnEdge(i)
    /\ Calls[i].args[1] = Zero
    /\ Between(FromInt(800000), Calls[i].ret.easting, FromInt(840000))

\* C5 as stated: on the edge of a zone the easting lies near the range
\* 400,000 to 600,000, here within 100,000 m of it.
C5_Original ==
  \A i \in DOMAIN Calls :
    C5_OnEdge(i)
      => Between(FromInt(300000), Calls[i].ret.easting, FromInt(700000))

(***************************************************************************)
(* C6                                                                      *)
(***************************************************************************)
\* Calls i and j are calls of one function with the same arguments.
C6_Same(i, j) == Calls[i].fn = Calls[j].fn /\ Calls[i].args = Calls[j].args

C7_GlobalState ==
  /\ helmertParams = HelmertInit
  /\ call.fn \in DatumFns => globalsRead = { "helmertParams" }
  /\ call.fn \notin DatumFns => globalsRead = {}

\* wgs84ToPSD93 has run after another call, has read helmertParams, and
\* helmertParams is what it was.
C7_Witness ==
  /\ call.fn = "wgs84ToPSD93"
  /\ prev # << >>
  /\ globalsRead = { "helmertParams" }
  /\ helmertParams = HelmertInit

\* C7 as stated: no conversion call reads or writes any global state.
C7_Original == helmertParams = HelmertInit /\ globalsRead = {}

(***************************************************************************)
(* C8                                                                      *)
(***************************************************************************)
\* A call that was given NaN for a latitude, a longitude or a grid coordinate.
C8_NaNInput(c) == \E v \in ArgNumbers(c) : IsNaN(v)

\* A call that was given a latitude outside [-90, 90].
C8_LatOutOfRange(c) ==
  /\ c.fn \in DatumFns \cup { "psd93ToUTM" }
  /\ FiniteArgs(c)
  /\ Less(FromInt(90), Abs(c.args[1]))

\* A psd93ToUTM call with a zone the longitude does not lie in.
C8_WrongZone(c) ==
  /\ c.fn = "psd93ToUTM"
  /\ FiniteArgs(c)
  /\ Less(FromInt(3), OffMeridian(c.args[2], c.args[3]))

C9_OnMeridian(c) ==
  /\ c.fn = "psd93ToUTM"
  /\ FiniteArgs(c)
  /\ LessEq(Abs(c.args[1]), FromInt(80))
  /\ c.args[2] = Meridian(c.args[3])

\* A utmToPSD93 call on an easting of 500,000 m, the false easting.
C9_OnFalseEasting(c) ==
  /\ c.fn = "utmToPSD93"
  /\ FiniteArgs(c)
  /\ c.args[1] = FromInt(500000)

\* C9: central meridian.  Both functions place the central meridian of a
\* zone at 6 * zone - 183 degrees (51 for zone 39, 57 for zone 40): psd93ToUTM
\* gives a point of that longitude the false easting of 500,000 exactly, and
\* utmToPSD93 gives the easting 500,000 that longitude, to within 1e-8
\* degrees.
C9_CentralMeridian ==
  \A i \in DOMAIN Calls :
    /\ C9_OnMeridian(Calls[i]) => Calls[i].ret.easting = FromInt(500000)
    /\ C9_OnFalseEasting(Calls[i])
         => /\ Finite(Calls[i].ret.lon)
            /\ LessEq(OffMeridian(Calls[i].ret.lon, Calls[i].args[3]), Dec(0, 0, 1, 0))

\* A point on the meridian of 51 degrees has been projected in zone 39 to the
\* easting 500,000, and utmToPSD93 has taken that easting back to 51 degrees.
C9_Witness ==
  \E i \in DOMAIN Calls : \E j \in DOMAIN Calls :
    /\ FedGrid(i, j)
    /\ C9_OnMeridian(Calls[i])
    /\ Calls[i].args[2] = FromInt(51) /\ Calls[i].args[3] = 39
    /\ C9_OnFalseEasting(Calls[j])
    /\ LessEq(Abs(Sub(Calls[j].ret.lon, FromInt(51))), Dec(0, 0, 1, 0))

(***************************************************************************)
(* C10                                                                     *)
(***************************************************************************)
\* A psd93ToUTM call on a latitude in [-80, 80], within 3 degrees of the
\* central meridian of its zone.
C10_Projected(c) ==
  /\ c.fn = "psd93ToUTM"
  /\ FiniteArgs(c)
  /\ LessEq(Abs(c.args[1]), FromInt(80))
  /\ LessEq(OffMeridian(c.args[2], c.args[3]), FromInt(3))

\* A utmToPSD93 call on grid coordinates of a zone: an easting within
\* 400,000 m of the false easting and a northing short of 10,000,000 m.
C10_OnGrid(c) ==
  /\ c.fn = "utmToPSD93"
  /\ FiniteArgs(c)
  /\ LessEq(Abs(Sub(c.args[1], FromInt(500000))), FromInt(400000))
  /\ Less(Abs(c.args[2]), FromInt(10000000))

\* a and b are both negative, both zero (b to within tol), or both positive.
C10_SameSide(a, b, tol) ==
  /\ IsZero(a) => LessEq(Abs(b), tol)
  /\ IsNeg(a) => IsNeg(b)
  /\ (~IsZero(a) /\ ~IsNeg(a)) => (~IsZero(b) /\ ~IsNeg(b))

\* C10: no false northing.  psd93ToUTM adds no offset to the northing:
\* latitude 0 gives northing 0, a southern latitude a negative northing, a
\* northern latitude a northing between 0 and 10,000,000.  utmToPSD93 uses
\* the northing as given: northing 0 gives latitude 0 (to within 1e-8
\* degrees), a negative northing a southern latitude and a positive northing
\* a northern one.
C10_NoFalseNorthing ==
  \A i \in DOMAIN Calls :
    /\ C10_Projected(Calls[i])
         => /\ Less(Abs(Calls[i].ret.northing), FromInt(10000000))
            /\ C10_SameSide(Calls[i].args[1], Calls[i].ret.northing, Zero)
    /\ C10_OnGrid(Calls[i])
         => /\ Finite(Calls[i].ret.lat)
            /\ C10_SameSide(Calls[i].args[2], Calls[i].ret.lat, Dec(0, 0, 1, 0))

\* A southern latitude has been projected to a negative northing, and
\* utmToPSD93 has taken that northing back to a southern latitude.
C10_Witness ==
  \E i \in DOMAIN Calls : \E j \in DOMAIN Calls :
    /\ FedGrid(i, j)
    /\ C10_Projected(Calls[i]) /\ C10_OnGrid(Calls[j])
    /\ IsNeg(Calls[i].args[1])
    /\ IsNeg(Calls[i].ret.northing)
    /\ IsNeg(Calls[j].ret.lat)

(***************************************************************************)
(* C11                                                                     *)
(***************************************************************************)
\* The call just made is a call of fn with a latitude and a longitude only,
\* the first call with these arguments in the run.
C11_HeightOmitted(fn) ==
  /\ call.fn = fn
  /\ Len(call.args) = 2
  /\ \A i \in DOMAIN prev : ~(prev[i].fn = fn /\ prev[i].args = call.args)

\* C11: height default.  The call sites of script.js give wgs84ToPSD93 and
\* psd93ToWGS84 a latitude and a longitude only, and such a call returns
\* what the call with the height 0 written out returns.
C11_HeightDefault ==
  /\ call.fn \in DatumFns => Len(call.args) = 2
  /\ C11_HeightOmitted("wgs84ToPSD93")
       => ret = wgs84ToPSD93(call.args[1], call.args[2], Zero)
  /\ C11_HeightOmitted("psd93ToWGS84")
       => ret = psd93ToWGS84(call.args[1], call.args[2], Zero)

\* psd93ToWGS84 has been called without a height after another call, and has
\* returned the finite point it returns for the height 0.
C11_Witness ==
  /\ C11_HeightOmitted("psd93ToWGS84")
  /\ prev # << >>
  /\ \A v \in RetNumbers([ fn |-> call.fn, ret |-> ret ]) : Finite(v)
  /\ ret = psd93ToWGS84(call.args[1], call.args[2], Zero)

(***************************************************************************)
(* C12: the state after load.                                              *)
(***************************************************************************)

\* The event handled right after DOMContentLoaded was an attempt to add a
\* point: the button, or a map click with its prompt answered.
C12_FirstAdd ==
  /\ handled = 2
  /\ \/ call.fn = "addPoint"
     \/ call.fn = "click" /\ outcome # "cancelled"

C13_Click(pos) ==
  /\ handled' = handled + 1
  /\ call' = [ fn |-> "click", args |-> pos ]
  /\ hasGroup(groups, currentGroup)

\* a is within half a millimetre of b.
C13_SameMillimetre(a, b) == LessEq(Abs(Sub(a, b)), Dec(0, 5, 0, 0))

\* The texts the click handler holds for pos are the grid coordinates of
\* wgs84ToPSD93 followed by psd93ToUTM in zone 40, to the millimetre.
C13_Converted(pos, utm) ==
  /\ C13_SameMillimetre(parseFloat(conv.grid[pos].easting), utm.easting)
  /\ C13_SameMillimetre(parseFloat(conv.grid[pos].northing), utm.northing)

C13_ConvertedFrom(pos, psd) ==
  Last(<< psd, C13_Converted(pos, psd93ToUTM(psd[1], psd[2], 40)) >>)

\* groups' is groups with one point more, last in the current group, and
\* that point has the coordinates of the inputs f.
C13_OneMore(f) ==
  /\ Len(groups') = Len(groups)
  /\ \A i \in DOMAIN groups :
       IF groups[i].id # currentGroup THEN groups'[i] = groups[i]
       ELSE /\ [ groups'[i] EXCEPT !.points = groups[i].points ] = groups[i]
            /\ Len(groups'[i].points) = Len(groups[i].points) + 1
            /\ SubSeq(groups'[i].points, 1, Len(groups[i].points)) = groups[i].points
            /\ groups'[i].points[Len(groups'[i].points)].easting = parseFloat(f.easting)
            /\ groups'[i].points[Len(groups'[i].points)].northing = parseFloat(f.northing)
            /\ groups'[i].points[Len(groups'[i].points)].group = currentGroup

\* C13: when a group is selected, a click on the map whose name prompt is
\* not cancelled adds exactly one point to the current group, whose easting
\* and northing are those wgs84ToPSD93 followed by psd93ToUTM in zone 40
\* give for the clicked position (as written to the inputs, to the
\* millimetre); a click whose prompt is cancelled adds no point.
C13_MapClick ==
  /\ \A pos \in ClickPositions :
       handled = 0 =>
         C13_ConvertedFrom(pos, wgs84ToPSD93(pos[1], pos[2], Undefined))
  /\ [][ \A pos \in ClickPositions :
           C13_Click(pos) =>
             IF outcome' = "cancelled" THEN groups' = groups
             ELSE outcome' = "added" /\ C13_OneMore(conv.grid[pos]) ]_vars

C13_Witness ==
  /\ call.fn = "click"
  /\ outcome = "added"
  /\ Len(groups) = 2
  /\ \E i \in DOMAIN groups :
       groups[i].id = currentGroup /\ Len(groups[i].points) = 2

(***************************************************************************)
(* C14: removing a point.                                                  *)
(***************************************************************************)

\* The step is a confirmed removePoint for the existing point id, from the
\* popup button (the id as a text) or from the list button (as a number).
C14_Removes(id) ==
  /\ handled' = handled + 1
  /\ call'.fn = "removePoint"
  /\ \/ call'.args = << "text", DecimalString(id) >>
     \/ call'.args = << "number", id >>
  /\ outcome' = "removed"
  /\ id \in pointIds(allPoints(groups))

\* after is before without its k-th point.
C14_Without(before, after, k) ==
  after = SubSeq(before, 1, k - 1) \o SubSeq(before, k + 1, Len(before))

\* C14: a confirmed removePoint(id) for an existing point, from the popup
\* button or from the list button, removes exactly that point from its group
\* and its marker from the marker table, and leaves every other point, marker
\* and group unchanged.
C14_Original ==
  [][ \A id \in (MaxClock - 1) .. MaxClock :
        C14_Removes(id) =>
          /\ Len(groups') = Len(groups)
          /\ markers' = markers \ { id }
          /\ \E i \in DOMAIN groups :
               /\ \A j \in DOMAIN groups \ { i } : groups'[j] = groups[j]
               /\ [ groups'[i] EXCEPT !.points = groups[i].points ] = groups[i]
               /\ \E k \in DOMAIN groups[i].points :
                    /\ groups[i].points[k].id = id
                    /\ C14_Without(groups[i].points, groups'[i].points, k) ]_vars

(***************************************************************************)
(* C15: polylines and distance labels.                                     *)
(***************************************************************************)

\* The handler that ran last was an addPoint, removePoint, deleteGroup,
\* clearAll or import, and it ran to completion.
C15_Completed ==
  \/ call.fn \in { "addPoint", "click" } /\ outcome = "added"
  \/ call.fn = "removePoint" /\ outcome = "removed"
  \/ call.fn = "deleteGroup" /\ outcome = "deleted"
  \/ call.fn = "clearAll" /\ outcome = "cleared"
  \/ call.fn = "onload" /\ outcome = "imported"

\* The groups with at least two points.
C15_Long == { i \in DOMAIN groups : Len(groups[i].points) >= 2 }

\* C15: after every completed addPoint, removePoint, deleteGroup, clearAll
\* and import, the groups that have a polyline are exactly the groups with at
\* least 2 points, and each such group has exactly (number of points - 1)
\* distance labels.
C15_Distances ==
  C15_Completed =>
    /\ DOMAIN polylines = { groups[i].id : i \in C15_Long }
    /\ DOMAIN distanceLabels = { groups[i].id : i \in C15_Long }
    /\ \A i \in C15_Long :
         /\ polylines[groups[i].id] = Len(groups[i].points)
         /\ distanceLabels[groups[i].id] = Len(groups[i].points) - 1

C15_Witness ==
  /\ call.fn = "removePoint"
  /\ outcome = "removed"
  /\ \E i \in DOMAIN groups :
       /\ Len(groups[i].points) = 2
       /\ polylines[groups[i].id] = 2
       /\ distanceLabels[groups[i].id] = 1

(***************************************************************************)
(* C16: Clear All.                                                         *)
(***************************************************************************)

\* C16: after a confirmed clearAll there are no groups, no points, no
\* markers (none in the marker table, none on the map), no polylines and no
\* distance labels, and no group is current.
C16_Original ==
  call.fn = "clearAll" /\ outcome = "cleared" =>
    /\ groups = << >>
    /\ markers = {}
    /\ DOMAIN mapMarkers = {}
    /\ DOMAIN polylines = {}
    /\ DOMAIN distanceLabels = {}
    /\ currentGroup = Null

(***************************************************************************)
(* C17: export and import.                                                 *)
(***************************************************************************)

\* The step is exportData.
C17_Exports == handled' = handled + 1 /\ call'.fn = "exportData"

\* The step is the end of an import of a file exportData produced.
C17_Imports ==
  handled' = handled + 1 /\ call'.fn = "onload" /\ outcome' = "imported"

\* The points with this id among points.
C17_With(points, id) == { k \in DOMAIN points : points[k].id = id }

\* C17: importing a file produced by exportData restores exactly the groups
\* and points that existed at export time (same group ids, names, colours,
\* point order and coordinates), with one marker per restored point (in the
\* marker table and on the map) and the distances recalculated, whatever
\* data was present before the import.
C17_Original ==
  [][ /\ C17_Exports => file' = << [ groups |-> groups ] >>
      /\ C17_Imports =>
           /\ groups' = Head(reading).groups
           /\ Cardinality(markers') = Len(allPoints(groups'))
           /\ \A id \in DOMAIN mapMarkers' \cup pointIds(allPoints(groups')) :
                /\ id \in DOMAIN mapMarkers'
                /\ mapMarkers'[id] = Cardinality(C17_With(allPoints(groups'), id))
           /\ polylines' = polylinesOf(groups')
           /\ distanceLabels' = labelsOf(groups') ]_vars

(***************************************************************************)
(* C18: areas.                                                             *)
(***************************************************************************)

\* C18: whenever a group has 3 or more points a polygon is drawn for it (and
\* its area and perimeter are calculated); groups with fewer than 3 points
\* have no polygon.
C18_Original ==
  \A i \in DOMAIN groups :
    Len(groups[i].points) >= 3 <=> groups[i].id \in polygons

(***************************************************************************)
(* C19, C20: the linear form of the 7-parameter steps.                     *)
(***************************************************************************)

\* A tenth of a millimetre.  The arithmetic of this module rounds downwards,
\* so a negation before and a negation after a division can differ in the
\* last digit kept; on coordinates of millions of metres that is a few
\* micrometres.
C19_Tolerance == Dec(0, 1, 0, 0)

\* The forward path of wgs84ToPSD93 (lines 68-78) on the point P, run with
\* all seven stored parameters negated.
C19_ForwardNegated(P) ==
  forwardForm(P[1], P[2], P[3],
              Mul(Neg(helmertParams.scale), Ppm),
              arcsec2rad(Neg(helmertParams.rx)),
              arcsec2rad(Neg(helmertParams.ry)),
              arcsec2rad(Neg(helmertParams.rz)),
              Neg(helmertParams.dx), Neg(helmertParams.dy), Neg(helmertParams.dz))

\* C19: the inverse Helmert step of psd93ToWGS84 is the forward step of
\* wgs84ToPSD93 with all seven parameters negated and the same linear form:
\* on every point the inverse path gives what the forward path gives when
\* it is run with the negated parameters.
C19_InverseIsNegatedForward ==
  call.fn = "inverse" =>
    \A k \in 1 .. 3 :
      LessEq(Abs(Sub(ret[k], C19_ForwardNegated(call.args)[k])), C19_Tolerance)

C19_Witness ==
  /\ call.fn = "inverse"
  /\ Len(prev) = 2
  /\ \A k \in 1 .. 3 : Finite(ret[k]) /\ ret[k] # call.args[k]

\* sec * pi / (180 * 3600)
C20_Radians(sec) == DivInt(DivInt(Mul(sec, Pi), 180), 3600)

\* X + dx + s*X - rz*Y + ry*Z, Y + dy + rz*X + s*Y - rx*Z and
\* Z + dz - ry*X + rx*Y + s*Z.
C20_PositionVector(X, Y, Z, s, rx, ry, rz, dx, dy, dz) ==
  << Add(Sub(Add(Add(X, dx), Mul(s, X)), Mul(rz, Y)), Mul(ry, Z)),
     Sub(Add(Add(Add(Y, dy), Mul(rz, X)), Mul(s, Y)), Mul(rx, Z)),
     Add(Add(Sub(Add(Z, dz), Mul(ry, X)), Mul(rx, Y)), Mul(s, Z)) >>

C20_Expected(P) ==
  C20_PositionVector(P[1], P[2], P[3],
                     Mul(helmertParams.scale, Ppm),
                     C20_Radians(helmertParams.rx),
                     C20_Radians(helmertParams.ry),
                     C20_Radians(helmertParams.rz),
                     helmertParams.dx, helmertParams.dy, helmertParams.dz)

\* C20: the Helmert step follows the Position Vector linear form in all
\* three components, X' = X + dx + s*X - rz*Y + ry*Z,
\* Y' = Y + dy + rz*X + s*Y - rx*Z, Z' = Z + dz - ry*X + rx*Y + s*Z, with
\* s = scale * 1e-6 and each rotation converted from arc-seconds by
\* sec * pi / (180 * 3600) (to a tenth of a millimetre).
C20_PositionVectorForm ==
  call.fn = "forward" =>
    \A k \in 1 .. 3 :
      LessEq(Abs(Sub(ret[k], C20_Expected(call.args)[k])), Dec(0, 1, 0, 0))

C20_Witness ==
  /\ call.fn = "forward"
  /\ Len(prev) = 3
  /\ \A k \in 1 .. 3 : Finite(ret[k]) /\ ret[k] # call.args[k]

(***************************************************************************)
(* C21                                                                     *)
(***************************************************************************)
\* psd93ToUTM(lat, 6 * zone - 183, zone) on a latitude in [-80, 80].
C21_Projected(c) ==
  /\ c.fn = "psd93ToUTM"
  /\ Between(NegRaw(FromInt(80)), c.args[1], FromInt(80))
  /\ c.args[2] = FromInt(zoneCM(c.args[3]))

\* utmToPSD93(500000, northing, zone)
C21_Inverted(c) ==
  /\ c.fn = "utmToPSD93"
  /\ c.args[1] = FromInt(500000)
  /\ Finite(c.args[2])

\* C21: on the central meridian the false easting is returned exactly.  For
\* every zone and latitude psd93ToUTM(lat, 6 * zone - 183, zone) has the
\* easting 500000, and utmToPSD93(500000, northing, zone) returns the central
\* meridian of the zone as longitude: rad2deg(deg2rad(6 * zone - 183)), which
\* is 6 * zone - 183 to the last digits of the arithmetic (1e-9 degrees here).
C21_FalseEastingExact ==
  \A i \in DOMAIN Calls :
    /\ C21_Projected(Calls[i]) => Calls[i].ret.easting = FromInt(500000)
    /\ C21_Inverted(Calls[i])
         => /\ Calls[i].ret.lon = rad2deg(deg2rad(FromInt(zoneCMInverse(Calls[i].args[3]))))
            /\ LessEq(OffMeridian(Calls[i].ret.lon, Calls[i].args[3]), Dec(0, 0, 0, 1000))

\* In zone 1 a point of latitude 80 on the meridian of -177 degrees has been
\* projected to the easting 500,000, utmToPSD93 has taken the result back, and
\* utmToPSD93 has been given the easting 500,000 with a northing of its own.
C21_Witness ==
  \E i \in DOMAIN Calls : \E j \in DOMAIN Calls : \E k \in DOMAIN Calls :
    /\ FedGrid(i, j)
    /\ C21_Projected(Calls[i]) /\ Calls[i].args[3] = 1 /\ Calls[i].args[1] = FromInt(80)
    /\ C21_Inverted(Calls[j])
    /\ C21_Inverted(Calls[k]) /\ Calls[k].args[2] = FromInt(2500000)
    /\ LessEq(OffMeridian(Calls[k].ret.lon, 1), Dec(0, 0, 0, 1000))

(***************************************************************************)
(* C22                                                                     *)
(***************************************************************************)
\* A psd93ToUTM call on a longitude more than 3 degrees from the central
\* meridian of the zone it was given.
C22_OutsideZone(c) ==
  /\ c.fn = "psd93ToUTM"
  /\ Finite(c.args[2])
  /\ Less(FromInt(3), OffMeridian(c.args[2], c.args[3]))

\* C22: psd93ToUTM never checks the zone against the longitude.  For every
\* pair of longitude and zone it returns a result, and the zone field of the
\* result is the zone argument unchanged, also when the longitude lies
\* outside that zone.
C22_ZoneUnchecked ==
  \A i \in DOMAIN Calls :
    Calls[i].fn = "psd93ToUTM"
      => /\ DOMAIN Calls[i].ret = { "easting", "northing", "zone" }
         /\ Calls[i].ret.zone = Calls[i].args[3]

\* psd93ToUTM has been given the longitude -120 with zone 40 and has returned
\* grid coordinates with zone 40.
C22_Witness ==
  \E i \in DOMAIN Calls :
    /\ C22_OutsideZone(Calls[i])
    /\ Calls[i].args[2] = NegRaw(FromInt(120))
    /\ Calls[i].ret.zone = 40
    /\ Finite(Calls[i].ret.easting)

(***************************************************************************)
(* C23                                                                     *)
(***************************************************************************)
\* The statements a call of an exported function executes, the statements of
\* the functions it calls included.
C23_Steps(fn) ==
  CASE fn = "wgs84ToPSD93" -> 41
    [] fn = "psd93ToWGS84" -> 41
    [] fn = "psd93ToUTM" -> 20
    [] fn = "utmToPSD93" -> 24

\* The times the statement of a line has been executed in the call under way.
C23_Times(line) == Cardinality({ i \in DOMAIN trace : trace[i] = line })

\* The lines of ecefToGeodetic.
C23_EcefLines == 44 .. 59

\* No function is on the stack twice, and no function has gone past its last
\* statement.
C23_NoRecursion ==
  /\ \A i \in DOMAIN stack : \A j \in DOMAIN stack : i # j => stack[i].fn # stack[j].fn
  /\ \A i \in DOMAIN stack : stack[i].at \in DOMAIN Body(stack[i].fn)

\* A call has returned: it has executed the number of statements of its
\* function, whatever its arguments were, and in the datum conversions every
\* statement of ecefToGeodetic once.
C23_FixedSteps ==
  (outcome = "returned" /\ stack = << >>)
    => /\ Len(trace) = C23_Steps(call.fn)
       /\ \A line \in C23_EcefLines : C23_Times(line) <= 1
       /\ call.fn \in DatumFns => C23_Times(51) = 1 /\ C23_Times(57) = 1

C27_Failed == call'.fn = "onload" /\ outcome' \in { "error", "invalid format" }

\* C27: a failed import leaves the data unchanged.  Whenever an import ends
\* with an error message (invalid JSON, no groups field, or a groups field
\* that cannot be processed), the groups, points, markers and current group
\* are the same as before the import.
C27_Original ==
  [][ (handled' = handled + 1 /\ C27_Failed)
        => /\ groups' = groups
           /\ markers' = markers
           /\ mapMarkers' = mapMarkers
           /\ currentGroup' = currentGroup ]_vars

(***************************************************************************)
(* C24                                                                     *)
(***************************************************************************)
\* C24: marker/point consistency.  After any sequence of addPoint,
\* removePoint, createGroup, deleteGroup, clearAll and import, the keys of
\* the marker table are exactly the ids of the points stored in all groups,
\* and there is one marker per point: as many entries as points.
C24_Original ==
  /\ markers = pointIds(allPoints(groups))
  /\ Cardinality(markers) = Len(allPoints(groups))

(***************************************************************************)
(* C25                                                                     *)
(***************************************************************************)
\* createGroup has run on the text name.
C25_Created(name) ==
  /\ handled' = handled + 1
  /\ call' = [ fn |-> "createGroup", args |-> << name >> ]

\* C25: createGroup with a name that is not empty always adds one new group
\* and leaves every existing group and its points unchanged, also when two
\* groups are created at the same clock reading; with an empty or blank name
\* it changes nothing.
C25_Original ==
  [][ /\ C25_Created("A")
        => /\ Len(groups') = Len(groups) + 1
           /\ \A i \in DOMAIN groups : groups'[i] = groups[i]
      /\ C25_Created("")
        => /\ groups' = groups
           /\ currentGroup' = currentGroup
           /\ markers' = markers ]_vars

(***************************************************************************)
(* C26                                                                     *)
(***************************************************************************)
\* A confirmed deleteGroup of the group that was current has run.
C26_DeletedCurrent ==
  /\ handled' = handled + 1
  /\ call' = [ fn |-> "deleteGroup", args |-> << currentGroup >> ]
  /\ outcome' = "deleted"

\* C26: current-group validity.  After any sequence of operations the
\* current group is either null or the id of a group that exists; after a
\* confirmed deleteGroup of the current group it is the first remaining
\* group, or null when none remains.
C26_Original ==
  /\ [](currentGroup = Null \/ hasGroup(groups, currentGroup))
  /\ [][C26_DeletedCurrent
          => currentGroup' = IF groups' = << >> THEN Null ELSE groups'[1].id]_vars

(***************************************************************************)
(* C28                                                                     *)
(***************************************************************************)
\* The user has picked a file in the dialog the Import button opened.
C28_Selected ==
  /\ handled' = handled + 1
  /\ call'.fn = "importData"
  /\ outcome' = "reading"

\* reader.onload has run.
C28_Loaded == handled' = handled + 1 /\ call'.fn = "onload"

\* C28: one import per file selection.  After any number of clicks on the
\* Import button a single file selection starts exactly one read of the file,
\* which ends in exactly one run of reader.onload, and that run replaces the
\* data in one step, no user action falling inside it.
C28_Original ==
  [][ /\ C28_Selected => Len(reading') = Len(reading) + 1
      /\ C28_Loaded => Len(reading') = Len(reading) - 1 ]_vars

(***************************************************************************)
(* C29                                                                     *)
(***************************************************************************)
\* addPoint has run with the inputs holding f, from the button or from a
\* click on the map whose prompt was answered.
C29_AddPoint(f) ==
  /\ handled' = handled + 1
  /\ \/ call' = [ fn |-> "addPoint", args |-> << >> ] /\ f = fields
     \/ \E pos \in ClickPositions :
          /\ call' = [ fn |-> "click", args |-> pos ]
          /\ outcome' # "cancelled"
          /\ f = conv.grid[pos]

\* No existing group is current, or an input does not parse to a number.
C29_Rejected(f) ==
  \/ currentGroup = Null
  \/ ~hasGroup(groups, currentGroup)
  \/ IsNaN(parseFloat(f.easting))
  \/ IsNaN(parseFloat(f.northing))

\* psd93ToWGS84 of what utmToPSD93 returns in zone 40.
C29_From(psd) == Last(<< psd, psd93ToWGS84(psd.lat, psd.lon, Undefined) >>)

C29_LatLng(f) ==
  C29_From(utmToPSD93(parseFloat(f.easting), parseFloat(f.northing), 40))

\* The points of group i have grown by one point, made from f for the
\* current group.
C29_Appended(i, f) ==
  /\ Len(groups'[i].points) = Len(groups[i].points) + 1
  /\ SubSeq(groups'[i].points, 1, Len(groups[i].points)) = groups[i].points
  /\ groups'[i].points[Len(groups'[i].points)].easting = parseFloat(f.easting)
  /\ groups'[i].points[Len(groups'[i].points)].northing = parseFloat(f.northing)
  /\ groups'[i].points[Len(groups'[i].points)].lat = conv.geo[f][1]
  /\ groups'[i].points[Len(groups'[i].points)].lng = conv.geo[f][2]
  /\ groups'[i].points[Len(groups'[i].points)].group = currentGroup

\* addPoint with the inputs f: nothing changes, or the current group, and
\* no other, gets one more point.
C29_Step(f) ==
  IF C29_Rejected(f)
  THEN /\ outcome' \in { "no group", "invalid" }
       /\ groups' = groups
       /\ markers' = markers
       /\ mapMarkers' = mapMarkers
       /\ currentGroup' = currentGroup
  ELSE /\ outcome' = "added"
       /\ DOMAIN groups' = DOMAIN groups
       /\ currentGroup' = currentGroup
       /\ \A i \in DOMAIN groups :
            IF groups[i].id = currentGroup
            THEN C29_Appended(i, f) /\ [ groups'[i] EXCEPT !.points = << >> ]
                                         = [ groups[i] EXCEPT !.points = << >> ]
            ELSE groups'[i] = groups[i]

C30_DeleteGroup(gid, how) ==
  /\ handled' = handled + 1
  /\ call' = [ fn |-> "deleteGroup", args |-> << gid >> ]
  /\ outcome' = how

\* The ids of the points of the group gid, and of the points of the others.
C30_Own(gid) ==
  UNION { pointIds(groups[i].points) : i \in { j \in DOMAIN groups : groups[j].id = gid } }

C30_Others(gid) ==
  UNION { pointIds(groups[i].points) : i \in { j \in DOMAIN groups : groups[j].id # gid } }

\* The group is gone with its polyline, its labels and the markers of its
\* points, in the table and on the map; the other groups are as they were.
C30_Removed(gid) ==
  /\ groups' = SelectSeq(groups, LAMBDA g : g.id # gid)
  /\ gid \notin DOMAIN polylines'
  /\ gid \notin DOMAIN distanceLabels'
  /\ \A id \in C30_Own(gid) \ C30_Others(gid) :
       id \notin markers' /\ id \notin DOMAIN mapMarkers'
  /\ \A id \in C30_Others(gid) :
       /\ id \in markers <=> id \in markers'
       /\ id \in DOMAIN mapMarkers <=> id \in DOMAIN mapMarkers'

\* C30: delete group.  A confirmed deleteGroup(g) removes g, the markers of
\* all its points, its polyline and its distance labels, and leaves every
\* other group, its points and its markers unchanged; a declined
\* confirmation or an unknown group id changes nothing.
C30_Original ==
  [][\A gid \in groupsList :
       /\ C30_DeleteGroup(gid, "deleted") => C30_Removed(gid)
       /\ (C30_DeleteGroup(gid, "cancelled") \/ C30_DeleteGroup(gid, "not found"))
            => UNCHANGED << groups, currentGroup, markers, mapMarkers, polylines,
                            distanceLabels >>]_vars

====
